---- MODULE Spec2Model ----
(***************************************************************************)
(* A model of the vault engine of src/application/vault.c: the vault file  *)
(* (header, location table, key-value entries, trailing keyed hash), the   *)
(* session (struct vault_info) and the public operations on them.          *)
(*                                                                         *)
(* The file is kept as its fields in file order.  Every field has its size *)
(* in bytes, so that offsets (lseek) are those of the program; a read at   *)
(* an offset where no entry starts yields bytes the model does not know,   *)
(* written as out-of-range values (see Unknown).                            *)
(*                                                                         *)
(* Cryptography is symbolic: a sealed box opens only under the key and     *)
(* nonce it was sealed with, a keyed hash is equal to another only when    *)
(* message and key agree, random bytes are fresh numbers.                  *)
(***************************************************************************)
EXTENDS Integers, Sequences, FiniteSets, TLC

(***************************************************************************)
(* Error codes (vault.h) and sizes (vault_map.h).                          *)
(***************************************************************************)
VE_SUCCESS == 0
VE_MEMERR == 1
VE_PARAMERR == 2
VE_IOERR == 3
VE_CRYPTOERR == 4
VE_VOPEN == 5
VE_VCLOSE == 6
VE_SYSCALL == 7
VE_EXIST == 8
VE_ACCESS == 9
VE_KEYEXIST == 10
VE_FILE == 11
VE_NOSPACE == 12
VE_WRONGPASS == 13

STATE_UNUSED == 0
STATE_ACTIVE == 65537
STATE_DELETED == 1

VERSION == 1
SALT_SIZE == 16
MASTER_KEY_SIZE == 32
MAC_SIZE == 16
NONCE_SIZE == 24
HASH_SIZE == 32
LOC_SIZE == 16
HEADER_SIZE == 108
ENTRY_HEADER_SIZE == 9
INITIAL_SIZE == 4
\* The two limits below are set in vault_map.h; the model takes small values,
\* the operations only compare lengths with them.
BOX_KEY_SIZE == 3
DATA_SIZE == 2

(***************************************************************************)
(* Bounds of the model.                                                    *)
(***************************************************************************)
\* Calls that add, update or delete a key in one run.
MaxOps == 5
\* The same, in the runs that take a header and entries from the server.
MaxServerOps == 3
\* Calls that rewrite the header (password, server time) in one run.
MaxHeaderOps == 1
\* The same, in the runs where an adversary alters the file.
MaxOpsTamper == 2
\* Alterations of the file by the adversary in one run.
MaxTamper == 1

\* Keys, as strings of bytes; the last one is too long for a box.
Keys == {<<1>>, <<2>>}
LongKey == <<1, 1, 1>>
\* The value, type and modification time that a caller passes when n values
\* have been drawn from the random generator: a value that no earlier call
\* has passed, of one byte or of DATA_SIZE bytes.
FreshInput(n) ==
  [type |-> 1 + (n % 2),
   value |-> IF n % 2 = 0 THEN <<10 + n>> ELSE <<10 + n, 10 + n>>,
   m_time |-> 1000 + n]
Passwords == {"hunter2", "trustno1"}

(***************************************************************************)
(* Keys of the cryptographic primitives.  A key buffer holds zeros, the    *)
(* 0xdb fill of sodium_malloc, a password-derived key or a master key.     *)
(***************************************************************************)
ZeroKey == [k |-> "zero", pw |-> "", salt |-> 0, id |-> 0]
JunkKey == [k |-> "junk", pw |-> "", salt |-> 0, id |-> 0]
MasterKey(n) == [k |-> "master", pw |-> "", salt |-> 0, id |-> n]

\* crypto_pwhash with the fixed Argon2id parameters.
PW_HASH(input, salt) == [k |-> "kek", pw |-> input, salt |-> salt, id |-> 0]

\* crypto_secretbox_easy: ciphertext and tag of m under nonce n and key key.
crypto_secretbox_easy(m, n, key) ==
  [pt |-> m, nonce |-> n, key |-> key, bad |-> FALSE]

\* crypto_secretbox_open_easy succeeds only on an unaltered box, with the
\* nonce and the key of the sealing.
secretbox_opens(c, n, key) == ~c.bad /\ c.nonce = n /\ c.key = key

\* crypto_generichash, keyed.
crypto_generichash(msg, key) == [h |-> msg, k |-> key, bad |-> FALSE]

\* val_len + MAC_SIZE zero bytes, as delete_key writes them over a value.
ZeroBox == [pt |-> <<>>, nonce |-> 0, key |-> ZeroKey, bad |-> TRUE]

\* randombytes_buf for a salt or a nonce that replaces the one in the header:
\* bytes that differ from those replaced and from every earlier draw (the
\* draws of a run number fewer than RandomStride).
RandomStride == 100
randombytes_buf(replaced) == replaced + RandomStride

\* Arithmetic of uint32_t.  The integers of the checker have 32 bits with a
\* sign: a value of 2^31 or more is written as the negative number that is
\* congruent to it modulo 2^32 (0xdbdbdbdb as -606348325), so that sums and
\* differences stay congruent without a reduction.
U32(x) == x

\* An altered byte: a value that differs from the one stored and from every
\* value that the program or an earlier alteration has stored.
Alter(x) == x + 1000000
AlterKey(key) == [i \in 1..Len(key) |-> key[i] + 256]
AlterBox(c) == [c EXCEPT !.bad = TRUE, !.nonce = Alter(@)]
AlterHash(h) == [h EXCEPT !.bad = TRUE]

(***************************************************************************)
(* The vault file.                                                         *)
(*   version | pad | salt | enc_master | master_nonce | ser_time | loc_len *)
(*   | loc (loc_len entries of LOC_SIZE bytes) | data                      *)
(* data holds everything that follows the location table: the entries and  *)
(* the keyed hashes of HASH_SIZE bytes written after them.                 *)
(***************************************************************************)
EmptyLoc == [state |-> STATE_UNUSED, file_loc |-> 0, key_len |-> 0, val_len |-> 0]

\* Size in bytes of a chunk of data: an entry, a keyed hash, or size bytes
\* that the model does not know.
ChunkSize(c) ==
  CASE c.kind = "entry" ->
         ENTRY_HEADER_SIZE + Len(c.key) + c.ct_len + MAC_SIZE + NONCE_SIZE + HASH_SIZE
    [] c.kind = "hash" -> HASH_SIZE
    [] OTHER -> c.size

RECURSIVE SizeOf(_)
SizeOf(chunks) ==
  IF chunks = <<>> THEN 0 ELSE ChunkSize(Head(chunks)) + SizeOf(Tail(chunks))

\* Offset of location entry i (the first one is entry 1).
LocOffset(i) == HEADER_SIZE + (i - 1) * LOC_SIZE
\* Offset of the first byte after the location table.
DataOffset(f) == HEADER_SIZE + Len(f.loc) * LOC_SIZE
ChunkStart(f, j) == DataOffset(f) + SizeOf(SubSeq(f.data, 1, j - 1))
FileSize(f) == DataOffset(f) + SizeOf(f.data)

\* The chunk of data that starts at byte offset off (0: none does).
ChunkAt(f, off) ==
  LET js == {j \in 1..Len(f.data) : ChunkStart(f, j) = off}
  IN  IF js = {} THEN 0 ELSE CHOOSE j \in js : TRUE

\* The bytes [from, to) are all zero: they lie in the unused entries that end
\* the location table.
RECURSIVE FirstOfZeroTail(_, _)
FirstOfZeroTail(loc, n) ==
  IF n > 0 /\ loc[n] = EmptyLoc THEN FirstOfZeroTail(loc, n - 1) ELSE n + 1
InZeros(f, from, to) ==
  /\ LocOffset(FirstOfZeroTail(f.loc, Len(f.loc))) <= from
  /\ to <= DataOffset(f)

\* Bytes the model does not know (the middle of an entry, a hash, the bytes
\* of a buffer that a short read has left unset): a value that no caller
\* passes and no field holds.
Unknown(off) == 0 - off - 1

\* The bytes that the entry hash covers, and the hash as the program makes it.
EntryBody(e) == <<e.m_time, e.type, e.key, e.e_val, e.val_nonce>>

\* What a read of box_len bytes at file_loc gives, for an entry of the
\* location table with lengths key_len and val_len:
\*   whole   - the bytes are exactly one entry of the file
\*   hash_ok - the last HASH_SIZE bytes are the keyed hash of the others
\*   opens   - the val_len + MAC_SIZE bytes after the key decrypt under master
ReadBox(f, loc, master) ==
  LET box_len == ENTRY_HEADER_SIZE + loc.key_len + loc.val_len + MAC_SIZE
                 + NONCE_SIZE + HASH_SIZE
      j == ChunkAt(f, loc.file_loc)
      whole == j # 0 /\ f.data[j].kind = "entry" /\ ChunkSize(f.data[j]) = box_len
      e == f.data[j]
  IN  [whole |-> whole,
       hash_ok |-> whole /\ e.hash = crypto_generichash(EntryBody(e), master),
       opens |-> /\ whole
                 /\ loc.key_len = Len(e.key)
                 /\ secretbox_opens(e.e_val, e.val_nonce, master),
       entry |-> IF whole THEN e ELSE [kind |-> "none"]]

\* What internal_create_key_map reads at file_loc: the modification time, the
\* type and key_len bytes of key, cut at the first zero byte.
ReadKeyInfo(f, loc) ==
  LET j == ChunkAt(f, loc.file_loc)
      e == f.data[j]
  IN  IF j # 0 /\ f.data[j].kind = "entry"
      THEN [m_time |-> e.m_time, type |-> e.type,
            key |-> IF loc.key_len <= Len(e.key)
                    THEN SubSeq(e.key, 1, loc.key_len)
                    ELSE <<Unknown(loc.file_loc)>>]
      ELSE IF InZeros(f, loc.file_loc,
                      loc.file_loc + ENTRY_HEADER_SIZE + loc.key_len)
      THEN [m_time |-> 0, type |-> 0, key |-> <<>>]
      ELSE [m_time |-> Unknown(loc.file_loc), type |-> Unknown(loc.file_loc),
            key |-> <<Unknown(loc.file_loc)>>]

(***************************************************************************)
(* The key map (vault_map.c): keys to the offset of their location entry,  *)
(* modification time and type.                                             *)
(***************************************************************************)
init_map == <<>>
get_info(map, key) == key \in DOMAIN map
add_entry(map, key, ki) ==
  [k \in DOMAIN map \cup {key} |-> IF k = key THEN ki ELSE map[k]]
delete_entry(map, key) == [k \in DOMAIN map \ {key} |-> map[k]]
get_keys(map) == DOMAIN map
num_keys(map) == Cardinality(DOMAIN map)

(***************************************************************************)
(* Internal functions.  Each takes the file (and what it reads of the      *)
(* session) and gives the file and the values it leaves.                   *)
(***************************************************************************)

\* A hash that lies among the bytes of a message, or that no longer ends the
\* file, is kept by its key and by whether it has been altered, not by the
\* message it was made from.
Digest(chunks) ==
  [j \in 1..Len(chunks) |->
     IF chunks[j].kind = "hash"
     THEN [kind |-> "hash",
           hash |-> [h |-> <<>>, k |-> chunks[j].hash.k,
                     bad |-> chunks[j].hash.bad]]
     ELSE chunks[j]]

\* The bytes of a file as the message of a hash.
HashedBytes(f) == [f EXCEPT !.data = Digest(@)]

\* internal_hash_file: the keyed hash of the file without its last off_end
\* bytes (0 or HASH_SIZE, the hash that ends the file).
internal_hash_file(f, master, off_end) ==
  LET n == Len(f.data)
      covered ==
        IF off_end = 0 THEN f
        ELSE IF n > 0 /\ ChunkSize(f.data[n]) = off_end
        THEN [f EXCEPT !.data = SubSeq(f.data, 1, n - 1)]
        ELSE [f EXCEPT !.data = Append(f.data, [kind |-> "cut", size |-> 0 - off_end])]
  IN  crypto_generichash(HashedBytes(covered), master)

\* write of a hash at SEEK_END.
WriteHashAtEnd(f, hash) ==
  [f EXCEPT !.data = Append(Digest(f.data), [kind |-> "hash", hash |-> hash])]

\* A hash written after the one that ends the file instead of over it (a
\* variant that the checks of C6 must tell from WriteHashOverLast).
WriteHashAfterLast(f, hash) ==
  [f EXCEPT !.data = Append(f.data, [kind |-> "hash", hash |-> hash])]

\* write of a hash at HASH_SIZE bytes before the end.
WriteHashOverLast(f, hash) ==
  [f EXCEPT !.data = Append(SubSeq(f.data, 1, Len(f.data) - 1),
                            [kind |-> "hash", hash |-> hash])]

\* The first location entry whose state is zero (0: none).
\* The scan of the location table that takes the last UNUSED entry (a variant
\* that the checks of C33 must tell from FirstFreeLoc).
LastFreeLoc(f) ==
  LET free == {i \in 1..f.loc_len : f.loc[i].state = 0}
  IN  IF free = {} THEN 0 ELSE CHOOSE i \in free : \A j \in free : i >= j

\* The scan of the location table that takes the first entry that is not
\* ACTIVE, a deleted one too (a variant that the checks of C32 must tell from
\* FirstFreeLoc).
FirstLocNotActive(f) ==
  LET free == {i \in 1..f.loc_len : f.loc[i].state # STATE_ACTIVE}
  IN  IF free = {} THEN 0 ELSE CHOOSE i \in free : \A j \in free : i <= j

FirstFreeLoc(f) ==
  LET free == {i \in 1..f.loc_len : f.loc[i].state = 0}
  IN  IF free = {} THEN 0 ELSE CHOOSE i \in free : \A j \in free : i <= j

\* The common tail of internal_append_key and internal_append_encrypted: the
\* entry is written over the hash that ends the file, the location entry is
\* set, the file is hashed whole and the hash written at its end, and the
\* key enters the map.
AppendEntry(f, map, master, next_loc, entry, key, key_len, val_len, m_time, type) ==
  LET file_loc == FileSize(f) - HASH_SIZE
      inode_loc == LocOffset(next_loc)
      f1 == [f EXCEPT !.data = Append(SubSeq(f.data, 1, Len(f.data) - 1), entry)]
      f2 == [f1 EXCEPT !.loc[next_loc] =
               [state |-> STATE_ACTIVE, file_loc |-> file_loc,
                key_len |-> key_len, val_len |-> val_len]]
      f3 == WriteHashAtEnd(f2, internal_hash_file(f2, master, 0))
  IN  [ret |-> VE_SUCCESS, file |-> f3,
       key_info |-> add_entry(map, key,
                      [inode_loc |-> inode_loc, m_time |-> m_time, type |-> type])]

\* internal_append_key, with the nonce that randombytes_buf gives.
internal_append_key(f, map, master, type, key, value, m_time, val_len, nonce) ==
  LET next_loc == FirstFreeLoc(f)
      e_val == crypto_secretbox_easy(SubSeq(value, 1, val_len), nonce, master)
      body == <<m_time, type, key, e_val, nonce>>
      entry == [kind |-> "entry", m_time |-> m_time, type |-> type, key |-> key,
                e_val |-> e_val, ct_len |-> val_len, val_nonce |-> nonce,
                hash |-> crypto_generichash(body, master)]
  IN  IF next_loc = 0
      THEN [ret |-> VE_NOSPACE, file |-> f, key_info |-> map]
      ELSE AppendEntry(f, map, master, next_loc, entry, key, Len(key), val_len,
                       m_time, type)

\* internal_create_key_map: one map entry per ACTIVE location entry, with
\* what the file holds at its file_loc.
RECURSIVE CreateKeyMapFrom(_, _, _)
CreateKeyMapFrom(f, next_loc, map) ==
  IF next_loc > f.loc_len THEN map
  ELSE IF f.loc[next_loc].state # STATE_ACTIVE
  THEN CreateKeyMapFrom(f, next_loc + 1, map)
  ELSE LET r == ReadKeyInfo(f, f.loc[next_loc])
       IN  CreateKeyMapFrom(f, next_loc + 1,
             add_entry(map, r.key, [inode_loc |-> LocOffset(next_loc),
                                    m_time |-> r.m_time, type |-> r.type]))
internal_create_key_map(f) == CreateKeyMapFrom(f, 1, init_map)

(***************************************************************************)
(* internal_condense_file.  box_data is the data of the file without the   *)
(* hash that ends it, kept as chunks at their offsets in the buffer.       *)
(***************************************************************************)
RECURSIVE BoxData(_, _)
BoxData(chunks, pos) ==
  IF chunks = <<>> THEN {}
  ELSE {[pos |-> pos, c |-> Head(chunks)]}
       \cup BoxData(Tail(chunks), pos + ChunkSize(Head(chunks)))

\* memmove(box_data + dest, box_data + src, len)
MemMove(buf, dest, src, len) ==
  LET at == {b \in buf : b.pos = src /\ ChunkSize(b.c) = len}
      c == IF at = {} THEN [kind |-> "junk", size |-> len]
           ELSE (CHOOSE b \in at : TRUE).c
  IN  {b \in buf : b.pos + ChunkSize(b.c) <= dest \/ b.pos >= dest + len}
      \cup {[pos |-> dest, c |-> c]}

\* The bytes [pos, end) of the buffer, as chunks.
RECURSIVE BoxBytes(_, _, _)
BoxBytes(buf, pos, end) ==
  IF pos >= end THEN <<>>
  ELSE LET at == {b \in buf : b.pos = pos /\ pos + ChunkSize(b.c) <= end}
           later == {b.pos : b \in {x \in buf : x.pos > pos /\ x.pos < end}}
           next == IF later = {} THEN end
                   ELSE CHOOSE q \in later : \A r \in later : q <= r
       IN  IF at # {}
           THEN LET c == (CHOOSE b \in at : TRUE).c
                IN  <<c>> \o BoxBytes(buf, pos + ChunkSize(c), end)
           ELSE <<[kind |-> "junk", size |-> next - pos]>> \o BoxBytes(buf, next, end)

\* The loop over the location entries (lines 551-578), from entry i on.
\* st: loc_data, box_data, data_replacement_loc, loc_replacement_index (the
\* number of entries already placed).
RECURSIVE CondenseLoop(_, _, _, _)
CondenseLoop(i, loc_size, offsets, st) ==
  IF i > loc_size THEN st
  ELSE
    LET cur == st.loc_data[i]
        current_box_len == cur.key_len + cur.val_len + ENTRY_HEADER_SIZE + MAC_SIZE
                           + NONCE_SIZE + HASH_SIZE
        current_loc == U32(cur.file_loc - offsets.old)
    IN  IF cur.state = STATE_ACTIVE
        THEN IF st.loc_replacement_index = i - 1
             THEN CondenseLoop(i + 1, loc_size, offsets,
                    [st EXCEPT !.loc_replacement_index = @ + 1])
             ELSE CondenseLoop(i + 1, loc_size, offsets,
                    [loc_data |->
                       [st.loc_data EXCEPT
                          ![i] = [cur EXCEPT !.file_loc =
                                    offsets.new + st.data_replacement_loc],
                          ![st.loc_replacement_index + 1] =
                                 [cur EXCEPT !.file_loc =
                                    offsets.new + st.data_replacement_loc]],
                     box_data |-> MemMove(st.box_data, st.data_replacement_loc,
                                          current_loc, current_box_len),
                     data_replacement_loc |->
                       st.data_replacement_loc + current_box_len,
                     loc_replacement_index |-> st.loc_replacement_index + 1])
        ELSE IF cur.state = STATE_UNUSED
        THEN st
        ELSE CondenseLoop(i + 1, loc_size, offsets,
               IF st.data_replacement_loc = 0
               THEN [st EXCEPT !.data_replacement_loc = current_loc]
               ELSE st)

\* A compaction that leaves the file as it is (a variant that the checks of
\* C19 must tell from internal_condense_file).
internal_condense_file_in_place(f, master) ==
  [file |-> f, key_info |-> internal_create_key_map(f)]

internal_condense_file(f, master) ==
  LET loc_size == f.loc_len
      old_data_offset == loc_size * LOC_SIZE + HEADER_SIZE
      new_data_offset == loc_size * LOC_SIZE + old_data_offset
      st == CondenseLoop(1, loc_size,
              [old |-> old_data_offset, new |-> new_data_offset],
              [loc_data |-> f.loc,
               box_data |-> BoxData(SubSeq(f.data, 1, Len(f.data) - 1), 0),
               data_replacement_loc |-> 0,
               loc_replacement_index |-> 0])
      new_data_size == st.data_replacement_loc
      valid_loc_entries == st.loc_replacement_index
      new_loc_size == loc_size * 2
      f1 == [f EXCEPT
               !.loc_len = new_loc_size,
               !.loc = [i \in 1..new_loc_size |->
                          IF i <= valid_loc_entries THEN st.loc_data[i]
                          ELSE EmptyLoc],
               !.data = BoxBytes(st.box_data, 0, new_data_size)]
      f2 == WriteHashAtEnd(f1, internal_hash_file(f1, master, 0))
  IN  [file |-> f2, key_info |-> internal_create_key_map(f2)]

(***************************************************************************)
(* The state: the vault file of the one path the model uses, the session   *)
(* (struct vault_info in guarded memory) and the process around it.        *)
(***************************************************************************)
VARIABLES
  file,      \* the bytes of the vault file
  exists,    \* the vault file exists
  locked,    \* a descriptor of the process holds the flock of the file
  info,      \* struct vault_info
  mem,       \* protection of the session memory: "noaccess" or "readwrite"
  rnd,       \* the number of values drawn from the random generator
  password,  \* the password that the header envelope was last sealed with
  budget,    \* mutations of the file that the run may still make
  adversary, \* alterations of the file that the run may still make
  last,      \* the last call that was not refused: arguments, return value
  procs      \* the processes that share the file, in the runs of SpecProcs

vars == <<file, exists, locked, info, mem, rnd, password, budget, adversary, last, procs>>

NoFile == [version |-> 0, pad |-> 0, salt |-> 0, enc_master |-> ZeroBox,
           master_nonce |-> 0, ser_time |-> 0, loc_len |-> 0, loc |-> <<>>,
           data |-> <<>>]

\* The box as sodium_malloc leaves it (0xdb in every byte), and zeroed.
JunkBox == [key |-> <<219, 219>>, type |-> 219, val_len |-> U32(0 - 606348325),
            value |-> <<219, 219>>]
ZeroedBox == [key |-> <<>>, type |-> 0, val_len |-> 0, value |-> <<>>]

\* The world an operation acts on.
World == [file |-> file, exists |-> exists, locked |-> locked, info |-> info,
          mem |-> mem, rnd |-> rnd]

Ret(w, ret) == [w |-> w, ret |-> ret]
Unlock(w) == [w EXCEPT !.mem = "readwrite"]
Lock(w) == [w EXCEPT !.mem = "noaccess"]

\* The location entry at offset inode_loc.
LocIndex(inode_loc) == (inode_loc - HEADER_SIZE) \div LOC_SIZE + 1

\* The file as create_vault and create_from_header first write it.
InitialFile(salt, enc_master, master_nonce, ser_time, master) ==
  LET f == [version |-> VERSION, pad |-> 0, salt |-> salt,
            enc_master |-> enc_master, master_nonce |-> master_nonce,
            ser_time |-> ser_time, loc_len |-> INITIAL_SIZE,
            loc |-> [i \in 1..INITIAL_SIZE |-> EmptyLoc], data |-> <<>>]
  IN  WriteHashAtEnd(f, internal_hash_file(f, master, 0))

\* The last HASH_SIZE bytes of the file are the keyed hash of the others.
FileHashMatches(f, master) ==
  /\ Len(f.data) > 0
  /\ f.data[Len(f.data)].kind = "hash"
  /\ f.data[Len(f.data)].hash = internal_hash_file(f, master, HASH_SIZE)

\* create_vault without the check of is_open (a variant that the checks of C20
\* must tell from create_vault).
create_vault_unguarded(w, pw) ==
  LET w1 == Unlock(w)
      master == MasterKey(w.rnd + 1)
      salt == w.rnd + 2
      master_nonce == w.rnd + 3
      derived_key == PW_HASH(pw, salt)
      enc_master == crypto_secretbox_easy(master, master_nonce, derived_key)
  IN  IF w.exists THEN Ret(w1, VE_EXIST)
      ELSE Ret(Lock([w1 EXCEPT
             !.exists = TRUE,
             !.locked = TRUE,
             !.rnd = @ + 3,
             !.file = InitialFile(salt, enc_master, master_nonce, 0, master),
             !.info = [@ EXCEPT !.user_fd = 1,
                                !.decrypted_master = master,
                                !.derived_key = derived_key,
                                !.key_info = init_map,
                                !.current_box.key = <<>>,
                                !.is_open = TRUE]]), VE_SUCCESS)

create_vault(w, pw) ==
  LET w1 == Unlock(w)
      master == MasterKey(w.rnd + 1)
      salt == w.rnd + 2
      master_nonce == w.rnd + 3
      derived_key == PW_HASH(pw, salt)
      enc_master == crypto_secretbox_easy(master, master_nonce, derived_key)
  IN  IF w.info.is_open THEN Ret(Lock(w1), VE_VOPEN)
      ELSE IF w.exists THEN Ret(w1, VE_EXIST)
      ELSE Ret(Lock([w1 EXCEPT
             !.exists = TRUE,
             !.locked = TRUE,
             !.rnd = @ + 3,
             !.file = InitialFile(salt, enc_master, master_nonce, 0, master),
             !.info = [@ EXCEPT !.user_fd = 1,
                                !.decrypted_master = master,
                                !.derived_key = derived_key,
                                !.key_info = init_map,
                                !.current_box.key = <<>>,
                                !.is_open = TRUE]]), VE_SUCCESS)

\* open_vault with the two checks in the other order, the file hash before
\* the envelope (a variant that the checks of C8 must tell from open_vault).
open_vault_hash_first(w, pw) ==
  LET w1 == Unlock(w)
      f == w.file
      derived_key == PW_HASH(pw, f.salt)
      w2 == [w1 EXCEPT !.info.derived_key = derived_key]
      w3 == [w2 EXCEPT !.locked = TRUE,
                       !.info.decrypted_master = f.enc_master.pt,
                       !.info.user_fd = 1]
  IN  IF w.info.is_open THEN Ret(Lock(w1), VE_VOPEN)
      ELSE IF ~w.exists THEN Ret(w1, VE_EXIST)
      ELSE IF w.locked THEN Ret(w1, VE_SYSCALL)
      ELSE IF ~FileHashMatches(f, f.enc_master.pt)
      THEN Ret(Lock(w3), VE_FILE)
      ELSE IF ~secretbox_opens(f.enc_master, f.master_nonce, derived_key)
      THEN Ret(Lock([w2 EXCEPT !.info.derived_key = ZeroKey]), VE_WRONGPASS)
      ELSE Ret(Lock([w3 EXCEPT !.info.key_info = internal_create_key_map(f),
                               !.info.current_box.key = <<>>,
                               !.info.is_open = TRUE]), VE_SUCCESS)

\* open_vault that leaves the derived key in the session when the envelope
\* does not open (a variant that the checks of C10 must tell from open_vault).
open_vault_keeping_key(w, pw) ==
  LET w1 == Unlock(w)
      f == w.file
      derived_key == PW_HASH(pw, f.salt)
      w2 == [w1 EXCEPT !.info.derived_key = derived_key]
      w3 == [w2 EXCEPT !.locked = TRUE,
                       !.info.decrypted_master = f.enc_master.pt,
                       !.info.user_fd = 1]
  IN  IF w.info.is_open THEN Ret(Lock(w1), VE_VOPEN)
      ELSE IF ~w.exists THEN Ret(w1, VE_EXIST)
      ELSE IF w.locked THEN Ret(w1, VE_SYSCALL)
      ELSE IF ~secretbox_opens(f.enc_master, f.master_nonce, derived_key)
      THEN Ret(Lock(w2), VE_WRONGPASS)
      ELSE IF ~FileHashMatches(f, f.enc_master.pt)
      THEN Ret(Lock(w3), VE_FILE)
      ELSE Ret(Lock([w3 EXCEPT !.info.key_info = internal_create_key_map(f),
                               !.info.current_box.key = <<>>,
                               !.info.is_open = TRUE]), VE_SUCCESS)

\* open_vault that does not compare the hash that ends the file (a variant
\* that the checks of C24 must tell from open_vault).
open_vault_without_file_hash(w, pw) ==
  LET w1 == Unlock(w)
      f == w.file
      derived_key == PW_HASH(pw, f.salt)
      w2 == [w1 EXCEPT !.info.derived_key = derived_key]
      w3 == [w2 EXCEPT !.locked = TRUE,
                       !.info.decrypted_master = f.enc_master.pt,
                       !.info.user_fd = 1]
  IN  IF w.info.is_open THEN Ret(Lock(w1), VE_VOPEN)
      ELSE IF ~w.exists THEN Ret(w1, VE_EXIST)
      ELSE IF w.locked THEN Ret(w1, VE_SYSCALL)
      ELSE IF ~secretbox_opens(f.enc_master, f.master_nonce, derived_key)
      THEN Ret(Lock([w2 EXCEPT !.info.derived_key = ZeroKey]), VE_WRONGPASS)
      ELSE Ret(Lock([w3 EXCEPT !.info.key_info = init_map,
                               !.info.current_box.key = <<>>,
                               !.info.is_open = TRUE]), VE_SUCCESS)

open_vault(w, pw) ==
  LET w1 == Unlock(w)
      f == w.file
      derived_key == PW_HASH(pw, f.salt)
      w2 == [w1 EXCEPT !.info.derived_key = derived_key]
      w3 == [w2 EXCEPT !.locked = TRUE,
                       !.info.decrypted_master = f.enc_master.pt,
                       !.info.user_fd = 1]
  IN  IF w.info.is_open THEN Ret(Lock(w1), VE_VOPEN)
      ELSE IF ~w.exists THEN Ret(w1, VE_EXIST)
      ELSE IF w.locked THEN Ret(w1, VE_SYSCALL)
      ELSE IF ~secretbox_opens(f.enc_master, f.master_nonce, derived_key)
      THEN Ret(Lock([w2 EXCEPT !.info.derived_key = ZeroKey]), VE_WRONGPASS)
      ELSE IF ~FileHashMatches(f, f.enc_master.pt)
      THEN Ret(Lock(w3), VE_FILE)
      ELSE Ret(Lock([w3 EXCEPT !.info.key_info = internal_create_key_map(f),
                               !.info.current_box.key = <<>>,
                               !.info.is_open = TRUE]), VE_SUCCESS)

\* close_vault that keeps the descriptor of the file (a variant that the
\* checks of C22 must tell from close_vault).
close_vault_keeping_descriptor(w) ==
  LET w1 == Unlock(w)
  IN  IF ~w.info.is_open THEN Ret(Lock(w1), VE_VCLOSE)
      ELSE Ret(Lock([w1 EXCEPT
             !.info = [@ EXCEPT !.key_info = init_map,
                                !.derived_key = ZeroKey,
                                !.decrypted_master = ZeroKey,
                                !.current_box = ZeroedBox,
                                !.is_open = FALSE]]), VE_SUCCESS)

close_vault(w) ==
  LET w1 == Unlock(w)
  IN  IF ~w.info.is_open THEN Ret(Lock(w1), VE_VCLOSE)
      ELSE Ret(Lock([w1 EXCEPT
             !.locked = FALSE,
             !.info = [@ EXCEPT !.key_info = init_map,
                                !.derived_key = ZeroKey,
                                !.decrypted_master = ZeroKey,
                                !.current_box = ZeroedBox,
                                !.is_open = FALSE]]), VE_SUCCESS)

\* internal_initial_checks: the memory is made read-write; a closed vault
\* locks it again and gives VE_VCLOSE.
internal_initial_checks(w) ==
  IF ~w.info.is_open THEN Ret(Lock(Unlock(w)), VE_VCLOSE)
  ELSE Ret(Unlock(w), VE_SUCCESS)

\* add_key without the compaction of a full table (a variant that the checks
\* of C5 must tell from add_key).
add_key_without_condense(w, type, key, value, m_time, len) ==
  LET c == internal_initial_checks(w)
      w1 == c.w
      a1 == internal_append_key(w1.file, w1.info.key_info,
              w1.info.decrypted_master, type, key, value, m_time, len,
              w1.rnd + 1)
  IN  IF len > DATA_SIZE \/ Len(key) > BOX_KEY_SIZE - 1 THEN Ret(w, VE_PARAMERR)
      ELSE IF c.ret # VE_SUCCESS THEN c
      ELSE IF get_info(w1.info.key_info, key) THEN Ret(Lock(w1), VE_KEYEXIST)
      ELSE Ret(Lock([w1 EXCEPT !.file = a1.file,
                               !.info.key_info = a1.key_info,
                               !.rnd = @ + 1]), a1.ret)

\* add_key without the refusal of a key that the index holds (a variant that
\* the checks of C21 must tell from add_key).
add_key_replacing(w, type, key, value, m_time, len) ==
  LET c == internal_initial_checks(w)
      w1 == c.w
      a1 == internal_append_key(w1.file, w1.info.key_info,
              w1.info.decrypted_master, type, key, value, m_time, len,
              w1.rnd + 1)
      cond == internal_condense_file(w1.file, w1.info.decrypted_master)
      a2 == internal_append_key(cond.file, cond.key_info,
              w1.info.decrypted_master, type, key, value, m_time, len,
              w1.rnd + 1)
      Done(a) == Ret(Lock([w1 EXCEPT !.file = a.file,
                                     !.info.key_info = a.key_info,
                                     !.rnd = @ + 1]), a.ret)
  IN  IF len > DATA_SIZE \/ Len(key) > BOX_KEY_SIZE - 1 THEN Ret(w, VE_PARAMERR)
      ELSE IF c.ret # VE_SUCCESS THEN c
      ELSE IF a1.ret = VE_NOSPACE THEN Done(a2)
      ELSE Done(a1)

add_key(w, type, key, value, m_time, len) ==
  LET c == internal_initial_checks(w)
      w1 == c.w
      a1 == internal_append_key(w1.file, w1.info.key_info,
              w1.info.decrypted_master, type, key, value, m_time, len,
              w1.rnd + 1)
      cond == internal_condense_file(w1.file, w1.info.decrypted_master)
      a2 == internal_append_key(cond.file, cond.key_info,
              w1.info.decrypted_master, type, key, value, m_time, len,
              w1.rnd + 1)
      Done(a) == Ret(Lock([w1 EXCEPT !.file = a.file,
                                     !.info.key_info = a.key_info,
                                     !.rnd = @ + 1]), a.ret)
  IN  IF len > DATA_SIZE \/ Len(key) > BOX_KEY_SIZE - 1 THEN Ret(w, VE_PARAMERR)
      ELSE IF c.ret # VE_SUCCESS THEN c
      ELSE IF get_info(w1.info.key_info, key) THEN Ret(Lock(w1), VE_KEYEXIST)
      ELSE IF a1.ret = VE_NOSPACE THEN Done(a2)
      ELSE Done(a1)

\* The bytes that delete_key zeroes: val_len + MAC_SIZE bytes at
\* file_loc + ENTRY_HEADER_SIZE + key_len.
ZeroValue(f, loc) ==
  LET j == ChunkAt(f, loc.file_loc)
  IN  IF j # 0 /\ f.data[j].kind = "entry" /\ Len(f.data[j].key) = loc.key_len
         /\ f.data[j].ct_len = loc.val_len
      THEN [f EXCEPT !.data[j].e_val = ZeroBox]
      ELSE IF j # 0
      THEN [f EXCEPT !.data[j] = [kind |-> "junk", size |-> ChunkSize(f.data[j])]]
      ELSE f

\* delete_key that leaves the state of the location entry as it is (a variant
\* that the checks of C16 must tell from delete_key).
delete_key_keeping_state(w, key) ==
  LET c == internal_initial_checks(w)
      w1 == c.w
      i == LocIndex(w1.info.key_info[key].inode_loc)
      f2 == ZeroValue(w1.file, w1.file.loc[i])
      f3 == WriteHashAtEnd(f2, internal_hash_file(f2, w1.info.decrypted_master, 0))
  IN  IF Len(key) > BOX_KEY_SIZE - 1 THEN Ret(w, VE_PARAMERR)
      ELSE IF c.ret # VE_SUCCESS THEN c
      ELSE IF ~get_info(w1.info.key_info, key) THEN Ret(Lock(w1), VE_KEYEXIST)
      ELSE Ret(Lock([w1 EXCEPT
             !.file = f3,
             !.info.key_info = delete_entry(w1.info.key_info, key)]), VE_SUCCESS)

delete_key(w, key) ==
  LET c == internal_initial_checks(w)
      w1 == c.w
      i == LocIndex(w1.info.key_info[key].inode_loc)
      f1 == [w1.file EXCEPT !.loc[i].state = STATE_DELETED]
      f2 == ZeroValue(f1, w1.file.loc[i])
      f3 == WriteHashAtEnd(f2, internal_hash_file(f2, w1.info.decrypted_master, 0))
  IN  IF Len(key) > BOX_KEY_SIZE - 1 THEN Ret(w, VE_PARAMERR)
      ELSE IF c.ret # VE_SUCCESS THEN c
      ELSE IF ~get_info(w1.info.key_info, key) THEN Ret(Lock(w1), VE_KEYEXIST)
      ELSE Ret(Lock([w1 EXCEPT
             !.file = f3,
             !.info.key_info = delete_entry(w1.info.key_info, key)]), VE_SUCCESS)

update_key(w, type, key, value, m_time, len) ==
  LET d == delete_key(w, key)
  IN  IF Len(value) > DATA_SIZE \/ Len(key) > BOX_KEY_SIZE - 1
      THEN Ret(w, VE_PARAMERR)
      ELSE IF d.ret # VE_SUCCESS THEN d
      ELSE add_key(d.w, type, key, value, m_time, len)

\* open_key without the comparison of the entry hash (a variant that the
\* checks of C9 must tell from open_key).
open_key_without_hash_check(w, key) ==
  LET c == internal_initial_checks(w)
      w1 == c.w
      box == w1.info.current_box
      loc == w1.file.loc[LocIndex(w1.info.key_info[key].inode_loc)]
      r == ReadBox(w1.file, loc, w1.info.decrypted_master)
  IN  IF Len(key) > BOX_KEY_SIZE - 1 THEN Ret(w, VE_PARAMERR)
      ELSE IF c.ret # VE_SUCCESS THEN c
      ELSE IF ~get_info(w1.info.key_info, key) THEN Ret(Lock(w1), VE_KEYEXIST)
      ELSE IF box.key # <<>> /\ key = box.key THEN Ret(Lock(w1), VE_SUCCESS)
      ELSE IF ~r.opens THEN Ret(Lock(w1), VE_CRYPTOERR)
      ELSE Ret(Lock([w1 EXCEPT !.info.current_box =
                       [key |-> key, type |-> r.entry.type,
                        val_len |-> loc.val_len, value |-> r.entry.e_val.pt]]),
               VE_SUCCESS)

open_key(w, key) ==
  LET c == internal_initial_checks(w)
      w1 == c.w
      box == w1.info.current_box
      loc == w1.file.loc[LocIndex(w1.info.key_info[key].inode_loc)]
      r == ReadBox(w1.file, loc, w1.info.decrypted_master)
  IN  IF Len(key) > BOX_KEY_SIZE - 1 THEN Ret(w, VE_PARAMERR)
      ELSE IF c.ret # VE_SUCCESS THEN c
      ELSE IF ~get_info(w1.info.key_info, key) THEN Ret(Lock(w1), VE_KEYEXIST)
      ELSE IF box.key # <<>> /\ key = box.key THEN Ret(Lock(w1), VE_SUCCESS)
      ELSE IF ~r.hash_ok THEN Ret(Lock(w1), VE_CRYPTOERR)
      ELSE IF ~r.opens THEN Ret(Lock(w1), VE_CRYPTOERR)
      ELSE Ret(Lock([w1 EXCEPT !.info.current_box =
                       [key |-> key, type |-> r.entry.type,
                        val_len |-> loc.val_len, value |-> r.entry.e_val.pt]]),
               VE_SUCCESS)

\* place_open_value: val_len bytes of the box, the length and the type.
place_open_value(w) ==
  IF ~w.info.is_open THEN [ret |-> VE_VCLOSE, result |-> <<>>, len |-> 0, type |-> 0]
  ELSE [ret |-> VE_SUCCESS,
        result |-> w.info.current_box.value,
        len |-> w.info.current_box.val_len,
        type |-> w.info.current_box.type]

\* last_modified_time: the time in the key map, or an error code.
last_modified_time(w, key) ==
  IF Len(key) > BOX_KEY_SIZE - 1 THEN VE_PARAMERR
  ELSE IF ~w.info.is_open THEN VE_VCLOSE
  ELSE IF ~get_info(w.info.key_info, key) THEN VE_KEYEXIST
  ELSE w.info.key_info[key].m_time

\* get_vault_keys and num_vault_keys.
get_vault_keys(w) ==
  IF ~w.info.is_open THEN [ret |-> VE_VCLOSE, results |-> {}]
  ELSE [ret |-> VE_SUCCESS, results |-> get_keys(w.info.key_info)]
num_vault_keys(w) == IF ~w.info.is_open THEN VE_VCLOSE ELSE num_keys(w.info.key_info)

\* change_password that seals the master key under the old password again (a
\* variant that the checks of C11 must tell from change_password).
change_password_sealing_old(w, old_password, new_password) ==
  LET c == internal_initial_checks(w)
      w1 == c.w
      f == w1.file
      keypass == PW_HASH(old_password, f.salt)
      salt == randombytes_buf(f.salt)
      master_nonce == randombytes_buf(f.master_nonce)
      derived_key == PW_HASH(old_password, salt)
      f1 == [f EXCEPT !.salt = salt,
                      !.enc_master = crypto_secretbox_easy(
                         w1.info.decrypted_master, master_nonce, derived_key),
                      !.master_nonce = master_nonce]
      f2 == WriteHashOverLast(f1,
              internal_hash_file(f1, w1.info.decrypted_master, HASH_SIZE))
  IN  IF c.ret # VE_SUCCESS THEN c
      ELSE IF ~secretbox_opens(f.enc_master, f.master_nonce, keypass)
      THEN Ret(Lock(w1), VE_WRONGPASS)
      ELSE IF f.enc_master.pt # w1.info.decrypted_master
      THEN Ret(Lock(w1), VE_WRONGPASS)
      ELSE Ret(Lock([w1 EXCEPT !.file = f2,
                               !.info.derived_key = derived_key]), VE_SUCCESS)

\* change_password that writes the file hash after the one that ends the file
\* (a variant that the checks of C12 must tell from change_password).
change_password_appending_hash(w, old_password, new_password) ==
  LET c == internal_initial_checks(w)
      w1 == c.w
      f == w1.file
      keypass == PW_HASH(old_password, f.salt)
      salt == randombytes_buf(f.salt)
      master_nonce == randombytes_buf(f.master_nonce)
      derived_key == PW_HASH(new_password, salt)
      f1 == [f EXCEPT !.salt = salt,
                      !.enc_master = crypto_secretbox_easy(
                         w1.info.decrypted_master, master_nonce, derived_key),
                      !.master_nonce = master_nonce]
      f2 == WriteHashAtEnd(f1,
              internal_hash_file(f1, w1.info.decrypted_master, 0))
  IN  IF c.ret # VE_SUCCESS THEN c
      ELSE IF ~secretbox_opens(f.enc_master, f.master_nonce, keypass)
      THEN Ret(Lock(w1), VE_WRONGPASS)
      ELSE IF f.enc_master.pt # w1.info.decrypted_master
      THEN Ret(Lock(w1), VE_WRONGPASS)
      ELSE Ret(Lock([w1 EXCEPT !.file = f2,
                               !.info.derived_key = derived_key]), VE_SUCCESS)

\* change_password that leaves the key of the old password in the session (a
\* variant that the checks of C28 must tell from change_password).
change_password_keeping_derived_key(w, old_password, new_password) ==
  LET c == internal_initial_checks(w)
      w1 == c.w
      f == w1.file
      keypass == PW_HASH(old_password, f.salt)
      salt == randombytes_buf(f.salt)
      master_nonce == randombytes_buf(f.master_nonce)
      derived_key == PW_HASH(new_password, salt)
      f1 == [f EXCEPT !.salt = salt,
                      !.enc_master = crypto_secretbox_easy(
                         w1.info.decrypted_master, master_nonce, derived_key),
                      !.master_nonce = master_nonce]
      f2 == WriteHashOverLast(f1,
              internal_hash_file(f1, w1.info.decrypted_master, HASH_SIZE))
  IN  IF c.ret # VE_SUCCESS THEN c
      ELSE IF ~secretbox_opens(f.enc_master, f.master_nonce, keypass)
      THEN Ret(Lock(w1), VE_WRONGPASS)
      ELSE IF f.enc_master.pt # w1.info.decrypted_master
      THEN Ret(Lock(w1), VE_WRONGPASS)
      ELSE Ret(Lock([w1 EXCEPT !.file = f2]), VE_SUCCESS)

change_password(w, old_password, new_password) ==
  LET c == internal_initial_checks(w)
      w1 == c.w
      f == w1.file
      keypass == PW_HASH(old_password, f.salt)
      salt == randombytes_buf(f.salt)
      master_nonce == randombytes_buf(f.master_nonce)
      derived_key == PW_HASH(new_password, salt)
      f1 == [f EXCEPT !.salt = salt,
                      !.enc_master = crypto_secretbox_easy(
                         w1.info.decrypted_master, master_nonce, derived_key),
                      !.master_nonce = master_nonce]
      f2 == WriteHashOverLast(f1,
              internal_hash_file(f1, w1.info.decrypted_master, HASH_SIZE))
  IN  IF c.ret # VE_SUCCESS THEN c
      ELSE IF ~secretbox_opens(f.enc_master, f.master_nonce, keypass)
      THEN Ret(Lock(w1), VE_WRONGPASS)
      ELSE IF f.enc_master.pt # w1.info.decrypted_master
      THEN Ret(Lock(w1), VE_WRONGPASS)
      ELSE Ret(Lock([w1 EXCEPT !.file = f2,
                               !.info.derived_key = derived_key]), VE_SUCCESS)

get_last_server_time(w) == IF ~w.info.is_open THEN VE_VCLOSE ELSE w.file.ser_time

\* set_last_server_time that writes the time 8 bytes too early, over the end
\* of the nonce (a variant that the checks of C29 must tell from
\* set_last_server_time).
set_last_server_time_misplaced(w, timestamp) ==
  LET c == internal_initial_checks(w)
      w1 == c.w
      f1 == [w1.file EXCEPT !.master_nonce = timestamp]
      f2 == WriteHashOverLast(f1,
              internal_hash_file(f1, w1.info.decrypted_master, HASH_SIZE))
  IN  IF c.ret # VE_SUCCESS THEN c
      ELSE Ret(Lock([w1 EXCEPT !.file = f2]), VE_SUCCESS)

set_last_server_time(w, timestamp) ==
  LET c == internal_initial_checks(w)
      w1 == c.w
      f1 == [w1.file EXCEPT !.ser_time = timestamp]
      f2 == WriteHashOverLast(f1,
              internal_hash_file(f1, w1.info.decrypted_master, HASH_SIZE))
  IN  IF c.ret # VE_SUCCESS THEN c
      ELSE Ret(Lock([w1 EXCEPT !.file = f2]), VE_SUCCESS)

\* internal_append_encrypted: the entry of len bytes gets the time m_time and
\* a new hash; the lengths of the location entry come from the key passed
\* and from len.
internal_append_encrypted(f, map, master, type, key, entry, len, m_time) ==
  LET next_loc == FirstFreeLoc(f)
      key_len == Len(key)
      val_len == U32(len - ENTRY_HEADER_SIZE - MAC_SIZE - NONCE_SIZE - HASH_SIZE
                     - key_len)
      timed == [entry EXCEPT !.m_time = m_time]
      to_write_data == [timed EXCEPT
                          !.hash = crypto_generichash(EntryBody(timed), master)]
  IN  IF next_loc = 0
      THEN [ret |-> VE_NOSPACE, file |-> f, key_info |-> map]
      ELSE AppendEntry(f, map, master, next_loc, to_write_data, key, key_len,
                       val_len, m_time, type)

\* add_encrypted_value without the comparison of the hash of the entry (a
\* variant that the checks of C26 must tell from add_encrypted_value).
add_encrypted_value_unverified(w, key, value, len, type, m_time) ==
  LET c == internal_initial_checks(w)
      w1 == c.w
      master == w1.info.decrypted_master
      a1 == internal_append_encrypted(w1.file, w1.info.key_info, master, type,
                                      key, value, len, m_time)
      cond == internal_condense_file(w1.file, master)
      a2 == internal_append_encrypted(cond.file, cond.key_info, master, type,
                                      key, value, len, m_time)
      Done(a) == Ret(Lock([w1 EXCEPT !.file = a.file,
                                     !.info.key_info = a.key_info]), a.ret)
  IN  IF Len(key) > BOX_KEY_SIZE - 1 THEN Ret(w, VE_PARAMERR)
      ELSE IF c.ret # VE_SUCCESS THEN c
      ELSE IF get_info(w1.info.key_info, key) THEN Ret(Lock(w1), VE_KEYEXIST)
      ELSE IF a1.ret # VE_SUCCESS THEN Done(a2)
      ELSE Done(a1)

\* value is an entry as get_encrypted_value gives it, of len bytes.
add_encrypted_value(w, key, value, len, type, m_time) ==
  LET c == internal_initial_checks(w)
      w1 == c.w
      master == w1.info.decrypted_master
      a1 == internal_append_encrypted(w1.file, w1.info.key_info, master, type,
                                      key, value, len, m_time)
      cond == internal_condense_file(w1.file, master)
      a2 == internal_append_encrypted(cond.file, cond.key_info, master, type,
                                      key, value, len, m_time)
      Done(a) == Ret(Lock([w1 EXCEPT !.file = a.file,
                                     !.info.key_info = a.key_info]), a.ret)
  IN  IF Len(key) > BOX_KEY_SIZE - 1 THEN Ret(w, VE_PARAMERR)
      ELSE IF c.ret # VE_SUCCESS THEN c
      ELSE IF get_info(w1.info.key_info, key) THEN Ret(Lock(w1), VE_KEYEXIST)
      ELSE IF value.hash # crypto_generichash(EntryBody(value), master)
      THEN Ret(Lock(w1), VE_FILE)
      ELSE IF a1.ret # VE_SUCCESS THEN Done(a2)
      ELSE Done(a1)

\* get_encrypted_value: the entry of the key as the file holds it, its length
\* and the type that the key map holds.
get_encrypted_value(w, key) ==
  LET c == internal_initial_checks(w)
      w1 == c.w
      ki == w1.info.key_info[key]
      loc == w1.file.loc[LocIndex(ki.inode_loc)]
      r == ReadBox(w1.file, loc, w1.info.decrypted_master)
      none == [result |-> [kind |-> "none"], len |-> 0, type |-> 0]
  IN  IF Len(key) > BOX_KEY_SIZE - 1 THEN [ret |-> VE_PARAMERR] @@ none
      ELSE IF c.ret # VE_SUCCESS THEN [ret |-> c.ret] @@ none
      ELSE IF ~get_info(w1.info.key_info, key) THEN [ret |-> VE_KEYEXIST] @@ none
      ELSE IF ~r.hash_ok THEN [ret |-> VE_CRYPTOERR] @@ none
      ELSE [ret |-> VE_SUCCESS, result |-> r.entry,
            len |-> ENTRY_HEADER_SIZE + loc.key_len + loc.val_len + MAC_SIZE
                    + NONCE_SIZE + HASH_SIZE,
            type |-> ki.type]

\* get_header: the first HEADER_SIZE - 4 bytes of the file.
get_header(w) ==
  IF ~w.info.is_open THEN [ret |-> VE_VCLOSE]
  ELSE [ret |-> VE_SUCCESS, version |-> w.file.version, pad |-> w.file.pad,
        salt |-> w.file.salt, enc_master |-> w.file.enc_master,
        master_nonce |-> w.file.master_nonce, ser_time |-> w.file.ser_time]

\* create_from_header without the opening of the sealed master key (a variant
\* that the checks of C27 must tell from create_from_header).
create_from_header_unverified(w, pw, header) ==
  LET w1 == Unlock(w)
      derived_key == PW_HASH(pw, header.salt)
      w2 == [w1 EXCEPT !.info.derived_key = derived_key]
      master == header.enc_master.pt
      w3 == [w2 EXCEPT !.info.decrypted_master = master]
      f == [version |-> header.version, pad |-> header.pad, salt |-> header.salt,
            enc_master |-> header.enc_master,
            master_nonce |-> header.master_nonce, ser_time |-> header.ser_time,
            loc_len |-> INITIAL_SIZE,
            loc |-> [i \in 1..INITIAL_SIZE |-> EmptyLoc], data |-> <<>>]
  IN  IF w.info.is_open THEN Ret(Lock(w1), VE_VOPEN)
      ELSE IF w.exists THEN Ret(w3, VE_EXIST)
      ELSE Ret(Lock([w3 EXCEPT
             !.exists = TRUE,
             !.locked = TRUE,
             !.file = WriteHashAtEnd(f, internal_hash_file(f, master, 0)),
             !.info = [@ EXCEPT !.user_fd = 1,
                                !.key_info = init_map,
                                !.current_box.key = <<>>,
                                !.is_open = TRUE]]), VE_SUCCESS)

create_from_header(w, pw, header) ==
  LET w1 == Unlock(w)
      derived_key == PW_HASH(pw, header.salt)
      w2 == [w1 EXCEPT !.info.derived_key = derived_key]
      master == header.enc_master.pt
      w3 == [w2 EXCEPT !.info.decrypted_master = master]
      f == [version |-> header.version, pad |-> header.pad, salt |-> header.salt,
            enc_master |-> header.enc_master,
            master_nonce |-> header.master_nonce, ser_time |-> header.ser_time,
            loc_len |-> INITIAL_SIZE,
            loc |-> [i \in 1..INITIAL_SIZE |-> EmptyLoc], data |-> <<>>]
  IN  IF w.info.is_open THEN Ret(Lock(w1), VE_VOPEN)
      ELSE IF ~secretbox_opens(header.enc_master, header.master_nonce, derived_key)
      THEN Ret(Lock(w2), VE_WRONGPASS)
      ELSE IF w.exists THEN Ret(w3, VE_EXIST)
      ELSE Ret(Lock([w3 EXCEPT
             !.exists = TRUE,
             !.locked = TRUE,
             !.file = WriteHashAtEnd(f, internal_hash_file(f, master, 0)),
             !.info = [@ EXCEPT !.user_fd = 1,
                                !.key_info = init_map,
                                !.current_box.key = <<>>,
                                !.is_open = TRUE]]), VE_SUCCESS)

\* create_data_for_server: the recovery data (the master key sealed under
\* the key of the first response, then under the key of the second), the
\* salts, the keys that the server compares and the server password.
create_data_for_server(w, response1, response2) ==
  LET c == internal_initial_checks(w)
      w1 == c.w
      data_salt_11 == w1.rnd + 1
      data_salt_12 == w1.rnd + 2
      data_salt_21 == w1.rnd + 3
      data_salt_22 == w1.rnd + 4
      second_pass_salt == w1.rnd + 5
      nonce1 == w1.rnd + 6
      nonce2 == w1.rnd + 7
      data1_master == PW_HASH(response1, data_salt_11)
      data2_master == PW_HASH(response2, data_salt_21)
      intermediate_result ==
        crypto_secretbox_easy(w1.info.decrypted_master, nonce1, data1_master)
  IN  [ret |-> c.ret,
       w |-> IF c.ret # VE_SUCCESS THEN w1 ELSE Lock([w1 EXCEPT !.rnd = @ + 7]),
       first_pass_salt |-> w1.file.salt,
       second_pass_salt |-> second_pass_salt,
       recovery_result |->
         [box |-> crypto_secretbox_easy(intermediate_result, nonce2, data2_master),
          nonce1 |-> nonce1, nonce2 |-> nonce2],
       dataencr1 |-> PW_HASH(data1_master, data_salt_12),
       dataencr2 |-> PW_HASH(data2_master, data_salt_22),
       data_salt_11 |-> data_salt_11, data_salt_12 |-> data_salt_12,
       data_salt_21 |-> data_salt_21, data_salt_22 |-> data_salt_22,
       server_pass |-> PW_HASH(w1.info.derived_key, second_pass_salt)]

\* create_password_for_server: the key of the session hashed with salt.
create_password_for_server(w, salt) ==
  LET c == internal_initial_checks(w)
      w1 == c.w
  IN  IF c.ret # VE_SUCCESS THEN [ret |-> c.ret, w |-> w1, server_pass |-> JunkKey]
      ELSE [ret |-> VE_SUCCESS, w |-> Lock(w1),
            server_pass |-> PW_HASH(w1.info.derived_key, salt)]

\* make_password_for_server: the password hashed with the first salt, the
\* result hashed with the second.
make_password_for_server(pw, first_salt, second_salt) ==
  LET derived_key == PW_HASH(pw, first_salt)
  IN  [ret |-> VE_SUCCESS, server_pass |-> PW_HASH(derived_key, second_salt)]

\* update_key_from_recovery that derives the new key with the salt it replaces
\* (a variant that the checks of C13 must tell from update_key_from_recovery).
update_key_from_recovery_old_salt(w, response1, response2, recovery, data_salt_1, data_salt_2, new_password) ==
  LET data1_master == PW_HASH(response1, data_salt_1)
      data2_master == PW_HASH(response2, data_salt_2)
      w1 == Unlock(w)
      intermediate_result == recovery.box.pt
      w2 == [w1 EXCEPT !.info.decrypted_master = intermediate_result.pt]
      w3 == [w2 EXCEPT !.locked = TRUE, !.info.user_fd = 1]
      f == w.file
      master == w2.info.decrypted_master
      new_first_salt == randombytes_buf(f.salt)
      master_nonce == randombytes_buf(f.master_nonce)
      derived_key == PW_HASH(new_password, f.salt)
      f1 == [f EXCEPT !.salt = new_first_salt,
                      !.enc_master =
                         crypto_secretbox_easy(master, master_nonce, derived_key),
                      !.master_nonce = master_nonce]
      f2 == WriteHashOverLast(f1, internal_hash_file(f1, master, HASH_SIZE))
  IN  IF w.info.is_open THEN Ret(Lock(w1), VE_VOPEN)
      ELSE IF ~secretbox_opens(recovery.box, recovery.nonce2, data2_master)
      THEN Ret(Lock(w1), VE_WRONGPASS)
      ELSE IF ~secretbox_opens(intermediate_result, recovery.nonce1, data1_master)
      THEN Ret(Lock(w1), VE_WRONGPASS)
      ELSE IF ~w.exists THEN Ret(w2, VE_EXIST)
      ELSE IF w.locked THEN Ret(w2, VE_SYSCALL)
      ELSE IF ~FileHashMatches(f, master) THEN Ret(Lock(w3), VE_FILE)
      ELSE Ret(Lock([w3 EXCEPT
             !.file = f2,
             !.info = [@ EXCEPT !.derived_key = derived_key,
                                !.key_info = internal_create_key_map(f2),
                                !.current_box.key = <<>>,
                                !.is_open = TRUE]]), VE_SUCCESS)

\* update_key_from_recovery that opens the outer box only (a variant that the
\* checks of C14 must tell from update_key_from_recovery).
update_key_from_recovery_outer_only(w, response1, response2, recovery, data_salt_1, data_salt_2, new_password) ==
  LET data1_master == PW_HASH(response1, data_salt_1)
      data2_master == PW_HASH(response2, data_salt_2)
      w1 == Unlock(w)
      intermediate_result == recovery.box.pt
      w2 == [w1 EXCEPT !.info.decrypted_master = intermediate_result.pt]
      w3 == [w2 EXCEPT !.locked = TRUE, !.info.user_fd = 1]
      f == w.file
      master == w2.info.decrypted_master
      new_first_salt == randombytes_buf(f.salt)
      master_nonce == randombytes_buf(f.master_nonce)
      derived_key == PW_HASH(new_password, new_first_salt)
      f1 == [f EXCEPT !.salt = new_first_salt,
                      !.enc_master =
                         crypto_secretbox_easy(master, master_nonce, derived_key),
                      !.master_nonce = master_nonce]
      f2 == WriteHashOverLast(f1, internal_hash_file(f1, master, HASH_SIZE))
  IN  IF w.info.is_open THEN Ret(Lock(w1), VE_VOPEN)
      ELSE IF ~secretbox_opens(recovery.box, recovery.nonce2, data2_master)
      THEN Ret(Lock(w1), VE_WRONGPASS)
      ELSE IF ~w.exists THEN Ret(w2, VE_EXIST)
      ELSE IF w.locked THEN Ret(w2, VE_SYSCALL)
      ELSE IF ~FileHashMatches(f, master) THEN Ret(Lock(w3), VE_FILE)
      ELSE Ret(Lock([w3 EXCEPT
             !.file = f2,
             !.info = [@ EXCEPT !.derived_key = derived_key,
                                !.key_info = internal_create_key_map(f2),
                                !.current_box.key = <<>>,
                                !.is_open = TRUE]]), VE_SUCCESS)

update_key_from_recovery(w, response1, response2, recovery, data_salt_1, data_salt_2, new_password) ==
  LET data1_master == PW_HASH(response1, data_salt_1)
      data2_master == PW_HASH(response2, data_salt_2)
      w1 == Unlock(w)
      intermediate_result == recovery.box.pt
      w2 == [w1 EXCEPT !.info.decrypted_master = intermediate_result.pt]
      w3 == [w2 EXCEPT !.locked = TRUE, !.info.user_fd = 1]
      f == w.file
      master == w2.info.decrypted_master
      new_first_salt == randombytes_buf(f.salt)
      master_nonce == randombytes_buf(f.master_nonce)
      derived_key == PW_HASH(new_password, new_first_salt)
      f1 == [f EXCEPT !.salt = new_first_salt,
                      !.enc_master =
                         crypto_secretbox_easy(master, master_nonce, derived_key),
                      !.master_nonce = master_nonce]
      f2 == WriteHashOverLast(f1, internal_hash_file(f1, master, HASH_SIZE))
  IN  IF w.info.is_open THEN Ret(Lock(w1), VE_VOPEN)
      ELSE IF ~secretbox_opens(recovery.box, recovery.nonce2, data2_master)
      THEN Ret(Lock(w1), VE_WRONGPASS)
      ELSE IF ~secretbox_opens(intermediate_result, recovery.nonce1, data1_master)
      THEN Ret(Lock(w1), VE_WRONGPASS)
      ELSE IF ~w.exists THEN Ret(w2, VE_EXIST)
      ELSE IF w.locked THEN Ret(w2, VE_SYSCALL)
      ELSE IF ~FileHashMatches(f, master) THEN Ret(Lock(w3), VE_FILE)
      ELSE Ret(Lock([w3 EXCEPT
             !.file = f2,
             !.info = [@ EXCEPT !.derived_key = derived_key,
                                !.key_info = internal_create_key_map(f2),
                                !.current_box.key = <<>>,
                                !.is_open = TRUE]]), VE_SUCCESS)

(***************************************************************************)
(* The calls of a run.  Every action is one call of the interface, with    *)
(* its arguments drawn from the sets above; last records the call and what *)
(* it returned.                                                            *)
(***************************************************************************)
NoInput == [type |-> 0, value |-> <<>>, m_time |-> 0]
Call(op, key, input, pw) ==
  [op |-> op, key |-> key, input |-> input, pw |-> pw, ret |-> VE_SUCCESS]

\* The codes by which a call refuses its arguments or the state of the
\* session before it reads the file.
Refusals == {VE_PARAMERR, VE_VOPEN, VE_VCLOSE, VE_KEYEXIST}

\* The state after a call that gave r; a call that changes the file takes one
\* unit of the budget of its class ("create", "keys" or "header"); a call
\* that is refused and changes nothing leaves no record.
Step(r, call, new_password, class) ==
  LET changes == r.w.file # file \/ r.w.exists # exists
  IN  /\ changes => budget[class] > 0
      /\ file' = r.w.file
      /\ exists' = r.w.exists
      /\ locked' = r.w.locked
      /\ info' = r.w.info
      /\ mem' = r.w.mem
      /\ rnd' = r.w.rnd
      /\ password' = IF r.ret = VE_SUCCESS THEN new_password ELSE password
      /\ budget' = IF changes THEN [budget EXCEPT ![class] = @ - 1] ELSE budget
      /\ adversary' = adversary
      /\ procs' = procs
      /\ last' = IF r.ret \in Refusals /\ ~changes /\ r.w.info = info
                 THEN last
                 ELSE [call EXCEPT !.ret = r.ret]

\* init_vault: guarded memory with 0xdb in every byte, is_open set to 0.
InitInfo == [user_fd |-> 219, is_open |-> FALSE, derived_key |-> JunkKey,
             decrypted_master |-> JunkKey, key_info |-> init_map,
             current_box |-> JunkBox]

\* Two processes, each with a session of its own.  pc is the place of the
\* process in a call (<<>> between the calls), fd that it holds a descriptor
\* of the file, lock that the descriptor holds the flock, ret the code of
\* its last call and wrote that the call has made or written the file.
Procs == {1, 2}
InitProc == [pc |-> <<>>, info |-> InitInfo, fd |-> FALSE, lock |-> FALSE,
             ret |-> VE_SUCCESS, wrote |-> FALSE]

InitWith(ops, header_ops, tampers) ==
  /\ file = NoFile
  /\ exists = FALSE
  /\ locked = FALSE
  /\ info = InitInfo
  /\ mem = "noaccess"
  /\ rnd = 0
  /\ password = ""
  /\ budget = [create |-> 1, keys |-> ops, header |-> header_ops]
  /\ adversary = tampers
  /\ last = Call("init_vault", <<>>, NoInput, "")
  /\ procs = [p \in Procs |-> InitProc]

Init == InitWith(MaxOps, MaxHeaderOps, 0)

CreateVault ==
  \E pw \in {"hunter2"} :
    Step(create_vault(World, pw), Call("create_vault", <<>>, NoInput, pw), pw,
         "create")

OpenVault ==
  \E pw \in Passwords :
    Step(open_vault(World, pw), Call("open_vault", <<>>, NoInput, pw), password,
         "header")

CloseVault ==
  Step(close_vault(World), Call("close_vault", <<>>, NoInput, ""), password,
       "header")

AddKey ==
  \E key \in Keys \cup {LongKey} :
    LET input == FreshInput(rnd)
    IN  Step(add_key(World, input.type, key, input.value, input.m_time,
                     Len(input.value)),
             Call("add_key", key, input, ""), password, "keys")

DeleteKey ==
  \E key \in Keys :
    Step(delete_key(World, key), Call("delete_key", key, NoInput, ""), password,
         "keys")

UpdateKey ==
  \E key \in Keys :
    LET input == FreshInput(rnd)
    IN  Step(update_key(World, input.type, key, input.value, input.m_time,
                        Len(input.value)),
             Call("update_key", key, input, ""), password, "keys")

OpenKey ==
  \E key \in Keys :
    Step(open_key(World, key), Call("open_key", key, NoInput, ""), password,
         "keys")

ChangePassword ==
  \E old \in Passwords, new \in Passwords :
    Step(change_password(World, old, new),
         Call("change_password", <<>>, NoInput, old), new, "header")

SetLastServerTime ==
  Step(set_last_server_time(World, 5000),
       Call("set_last_server_time", <<>>, NoInput, ""), password, "header")

\* An entry for key as another copy of the vault holds it, with the hash of
\* the entry under master or, forged, under another key.
ServerEntry(key, master, forged) ==
  LET e_val == crypto_secretbox_easy(<<9>>, 0, master)
  IN  [kind |-> "entry", m_time |-> 3000, type |-> 3, key |-> key,
       e_val |-> e_val, ct_len |-> 1, val_nonce |-> 0,
       hash |-> crypto_generichash(<<3000, 3, key, e_val, 0>>,
                                   IF forged THEN JunkKey ELSE master)]

AddEncryptedValue ==
  \E key \in Keys, forged \in BOOLEAN :
    LET value == ServerEntry(key, info.decrypted_master, forged)
    IN  Step(add_encrypted_value(World, key, value, ChunkSize(value), 3, 4000),
             Call("add_encrypted_value", key, NoInput, ""), password, "keys")

\* The header of a vault that another machine has made with password pw.
ServerHeader(pw) ==
  [version |-> VERSION, pad |-> 0, salt |-> 1,
   enc_master |-> crypto_secretbox_easy(MasterKey(0), 2, PW_HASH(pw, 1)),
   master_nonce |-> 2, ser_time |-> 5000]

CreateFromHeader ==
  \E pw \in Passwords :
    Step(create_from_header(World, pw, ServerHeader("hunter2")),
         Call("create_from_header", <<>>, NoInput, pw), pw, "create")

\* The answers to the security questions, and the recovery data that
\* create_data_for_server gave for them in the first session of the vault.
Responses == {"blue", "green"}
ServerRecovery ==
  create_data_for_server(
    [World EXCEPT !.info = [InitInfo EXCEPT !.is_open = TRUE,
                                            !.decrypted_master = file.enc_master.pt],
                  !.rnd = 0],
    "blue", "blue")

UpdateKeyFromRecovery ==
  \E response \in Responses, new_password \in Passwords :
    Step(update_key_from_recovery(World, response, "blue",
           ServerRecovery.recovery_result, ServerRecovery.data_salt_11,
           ServerRecovery.data_salt_21, new_password),
         Call("update_key_from_recovery", <<>>, NoInput, new_password),
         new_password, "header")

Next ==
  \/ CreateVault
  \/ OpenVault
  \/ CloseVault
  \/ AddKey
  \/ DeleteKey
  \/ UpdateKey
  \/ OpenKey
  \/ ChangePassword
  \/ SetLastServerTime
  \/ UpdateKeyFromRecovery

Spec == Init /\ [][Next]_vars

(***************************************************************************)
(* The adversary: another process that alters bytes of the vault file.  It *)
(* alters any field of a file that no session has open, and the entries of *)
(* the data of a file that is open.                                        *)
(***************************************************************************)
HeaderFields == {"version", "pad", "salt", "enc_master", "master_nonce",
                 "ser_time", "loc_len"}
LocFields == {"state", "file_loc", "key_len", "val_len"}
EntryFields == {"m_time", "type", "key", "e_val", "val_nonce", "hash"}

AlterHeader(f, field) ==
  CASE field = "version" -> [f EXCEPT !.version = Alter(@)]
    [] field = "pad" -> [f EXCEPT !.pad = Alter(@)]
    [] field = "salt" -> [f EXCEPT !.salt = Alter(@)]
    [] field = "enc_master" -> [f EXCEPT !.enc_master = AlterBox(@)]
    [] field = "master_nonce" -> [f EXCEPT !.master_nonce = Alter(@)]
    [] field = "ser_time" -> [f EXCEPT !.ser_time = Alter(@)]
    [] field = "loc_len" -> [f EXCEPT !.loc_len = Alter(@)]

AlterLoc(f, i, field) ==
  CASE field = "state" -> [f EXCEPT !.loc[i].state = Alter(@)]
    [] field = "file_loc" -> [f EXCEPT !.loc[i].file_loc = Alter(@)]
    [] field = "key_len" -> [f EXCEPT !.loc[i].key_len = Alter(@)]
    [] field = "val_len" -> [f EXCEPT !.loc[i].val_len = Alter(@)]

AlterEntry(e, field) ==
  CASE field = "m_time" -> [e EXCEPT !.m_time = Alter(@)]
    [] field = "type" -> [e EXCEPT !.type = Alter(@)]
    [] field = "key" -> [e EXCEPT !.key = AlterKey(@)]
    [] field = "e_val" -> [e EXCEPT !.e_val = AlterBox(@)]
    [] field = "val_nonce" -> [e EXCEPT !.val_nonce = Alter(@)]
    [] field = "hash" -> [e EXCEPT !.hash = AlterHash(@)]

\* An alteration of chunk j of the data: a field of an entry, or the bytes of
\* a hash.
AlterData(f, j, field) ==
  IF f.data[j].kind = "entry"
  THEN [f EXCEPT !.data[j] = AlterEntry(@, field)]
  ELSE IF f.data[j].kind = "hash"
  THEN [f EXCEPT !.data[j].hash = AlterHash(@)]
  ELSE [f EXCEPT !.data[j] = [kind |-> "altered", size |-> ChunkSize(@)]]

Altered(f) ==
  /\ exists
  /\ adversary > 0
  /\ f # file
  /\ file' = f
  /\ adversary' = adversary - 1
  /\ UNCHANGED <<exists, locked, info, mem, rnd, password, budget, last, procs>>

TamperHeader ==
  /\ ~info.is_open
  /\ \E field \in HeaderFields : Altered(AlterHeader(file, field))

TamperLoc ==
  /\ ~info.is_open
  /\ \E i \in 1..Len(file.loc), field \in LocFields :
       Altered(AlterLoc(file, i, field))

TamperData ==
  \E j \in 1..Len(file.data), field \in EntryFields :
    Altered(AlterData(file, j, field))

InitTamper == InitWith(MaxOpsTamper, MaxHeaderOps, MaxTamper)
NextTamper ==
  \/ Next
  \/ TamperHeader
  \/ TamperLoc
  \/ TamperData
SpecTamper == InitTamper /\ [][NextTamper]_vars

\* The runs that also take a header and entries from the server; they are
\* shorter.
InitServer == InitWith(MaxServerOps, MaxHeaderOps, 0)
NextServer ==
  \/ Next
  \/ CreateFromHeader
  \/ AddEncryptedValue
SpecServer == InitServer /\ [][NextServer]_vars

(***************************************************************************)
(* Two processes on one vault file.  create_vault and open_vault are taken *)
(* system call by system call (open, flock, then the reads and writes that *)
(* the process makes with the lock held), so that the calls of the two     *)
(* processes interleave as the kernel lets them.  flock is held by an open *)
(* file description: it refuses every other descriptor, of another process *)
(* or of the same one.                                                     *)
(***************************************************************************)
ProcPassword == "hunter2"

\* Some descriptor holds the flock of the file.
LockHeld == \E q \in Procs : procs[q].lock

\* The world of the calls of process p once its descriptor holds the lock.
ProcWorld(p) ==
  [file |-> file, exists |-> exists, locked |-> FALSE, info |-> procs[p].info,
   mem |-> "noaccess", rnd |-> 10 * p]

ProcStep(p, pr, f, e) ==
  /\ procs' = [procs EXCEPT ![p] =
                 [pr EXCEPT !.wrote = @ \/ f # file \/ e # exists]]
  /\ file' = f
  /\ exists' = e
  /\ UNCHANGED <<locked, info, mem, rnd, password, budget, adversary, last>>

\* The entry of create_vault and open_vault, up to the test of is_open.
ProcCall(p, call) ==
  LET pr == [procs[p] EXCEPT !.wrote = FALSE]
  IN  ProcStep(p, IF pr.info.is_open THEN [pr EXCEPT !.ret = VE_VOPEN]
                  ELSE [pr EXCEPT !.pc = <<call, "open">>], file, exists)

ProcCreateVault(p) ==
  /\ procs[p].pc = <<>>
  /\ ProcCall(p, "create_vault")

ProcOpenVault(p) ==
  /\ procs[p].pc = <<>>
  /\ ProcCall(p, "open_vault")

\* open(2): with O_CREAT | O_EXCL in create_vault, which makes the file, of
\* no byte, or fails when it exists; without in open_vault.
ProcOpenFile(p) ==
  LET pr == procs[p]
      back(ret) == [pr EXCEPT !.pc = <<>>, !.ret = ret]
      on == [pr EXCEPT !.pc = <<pr.pc[1], "flock">>, !.fd = TRUE]
  IN  /\ Len(pr.pc) = 2
      /\ pr.pc[2] = "open"
      /\ IF pr.pc[1] = "create_vault"
         THEN IF exists THEN ProcStep(p, back(VE_EXIST), file, exists)
              ELSE ProcStep(p, on, NoFile, TRUE)
         ELSE IF ~exists THEN ProcStep(p, back(VE_EXIST), file, exists)
              ELSE ProcStep(p, on, file, exists)

\* flock(LOCK_EX | LOCK_NB) on the descriptor; when it fails the descriptor
\* is closed and the call returns VE_SYSCALL.
ProcFlock(p) ==
  LET pr == procs[p]
  IN  /\ Len(pr.pc) = 2
      /\ pr.pc[2] = "flock"
      /\ IF LockHeld
         THEN ProcStep(p, [pr EXCEPT !.pc = <<>>, !.ret = VE_SYSCALL,
                                    !.fd = FALSE], file, exists)
         ELSE ProcStep(p, [pr EXCEPT !.pc = <<pr.pc[1], "locked">>,
                                    !.lock = TRUE], file, exists)

\* The rest of create_vault: the keys, the writes of the file, the session.
ProcWriteFile(p) ==
  LET pr == procs[p]
      r == create_vault([ProcWorld(p) EXCEPT !.exists = FALSE], ProcPassword)
  IN  /\ pr.pc = <<"create_vault", "locked">>
      /\ ProcStep(p, [pr EXCEPT !.pc = <<>>, !.ret = r.ret, !.info = r.w.info],
                  r.w.file, TRUE)

\* What the rest of open_vault gives on a file of no byte: read leaves
\* open_info as the stack holds it.  Bytes that are no sealed box of the
\* derived key give VE_WRONGPASS; bytes that an earlier call has left there,
\* the header of a vault of the same password, open, and the hash of the
\* file, which is not read either, gives VE_FILE, the descriptor kept.
ShortRead(w, pw) ==
  {open_vault(w, pw),
   Ret(Lock([w EXCEPT !.locked = TRUE,
                      !.info.derived_key = PW_HASH(pw, Unknown(8)),
                      !.info.decrypted_master = JunkKey,
                      !.info.user_fd = 1]), VE_FILE)}

\* The rest of open_vault: the header is read, the master key opened, the
\* file hashed and the index made.
ProcReadFile(p) ==
  LET pr == procs[p]
      w == ProcWorld(p)
      rs == IF file = NoFile THEN ShortRead(w, ProcPassword)
            ELSE {open_vault(w, ProcPassword)}
  IN  /\ pr.pc = <<"open_vault", "locked">>
      /\ \E r \in rs :
           ProcStep(p, [pr EXCEPT !.pc = <<>>, !.ret = r.ret, !.info = r.w.info,
                                  !.fd = r.w.locked, !.lock = r.w.locked],
                    file, exists)

ProcCloseVault(p) ==
  LET pr == procs[p]
      r == close_vault([ProcWorld(p) EXCEPT !.locked = pr.lock])
  IN  /\ pr.pc = <<>>
      /\ ProcStep(p, [pr EXCEPT !.ret = r.ret, !.info = r.w.info,
                                !.fd = r.w.locked, !.lock = r.w.locked,
                                !.wrote = FALSE],
                  file, exists)

InitProcs == InitWith(0, 0, 0)
NextProcs ==
  \E p \in Procs :
    \/ ProcCreateVault(p)
    \/ ProcOpenVault(p)
    \/ ProcOpenFile(p)
    \/ ProcFlock(p)
    \/ ProcWriteFile(p)
    \/ ProcReadFile(p)
    \/ ProcCloseVault(p)
SpecProcs == InitProcs /\ [][NextProcs]_vars

(***************************************************************************)
(* What a caller reads, and the shape of the file.                         *)
(***************************************************************************)
\* open_key(key), then place_open_value and last_modified_time(key).
ReadValue(w, key) ==
  LET o == open_key(w, key)
      p == place_open_value(o.w)
  IN  [ret |-> o.ret, result |-> p.result, len |-> p.len, type |-> p.type,
       m_time |-> last_modified_time(o.w, key)]

\* The same when no value is open: open_key reads the file.
ReadFromFile(w, key) ==
  ReadValue([w EXCEPT !.info.current_box.key = <<>>], key)

\* What a caller reads after add_key or update_key of input has succeeded.
Reads(r, input) ==
  /\ r.ret = VE_SUCCESS
  /\ r.result = input.value
  /\ r.len = Len(input.value)
  /\ r.type = input.type
  /\ r.m_time = input.m_time

\* The master key that the header of the file seals.
MasterOf(f) == f.enc_master.pt

\* No location entry is unused.
Full(f) == FirstFreeLoc(f) = 0

\* The location entry of a key of the index.
SlotOf(w, key) == LocIndex(w.info.key_info[key].inode_loc)

\* The size of the entry that a location entry describes.
RecordSize(loc) ==
  ENTRY_HEADER_SIZE + loc.key_len + loc.val_len + MAC_SIZE + NONCE_SIZE + HASH_SIZE

RECURSIVE SumOfRecords(_, _)
SumOfRecords(loc, n) ==
  IF n = 0 THEN 0
  ELSE SumOfRecords(loc, n - 1)
       + (IF loc[n].state \in {STATE_ACTIVE, STATE_DELETED}
          THEN RecordSize(loc[n]) ELSE 0)

(***************************************************************************)
(* C1.  Round trip.  In every reachable state of an open vault, whatever   *)
(* calls came before: when add_key of a key and a value succeeds, open_key *)
(* of the key followed by place_open_value gives the value, its length and *)
(* its type, and last_modified_time gives the time passed.                 *)
(* The program does not keep this when the value of the key was open and  *)
(* the key has been deleted since: open_key answers from the box.          *)
(***************************************************************************)
C1_RoundTrip ==
  \A key \in Keys :
    LET input == FreshInput(rnd)
        a == add_key(World, input.type, key, input.value, input.m_time,
                     Len(input.value))
    IN  (info.is_open /\ a.ret = VE_SUCCESS) => Reads(ReadValue(a.w, key), input)

(***************************************************************************)
(* C2.  update_key of a present key has the effect of delete_key followed  *)
(* by add_key: when it succeeds the key is in the index, its former        *)
(* location entry is DELETED, another one is ACTIVE for it, and open_key   *)
(* with place_open_value gives the new value, whether or not the value of  *)
(* the key was open before.                                                *)
(* The program does not keep this when the value of the key was open.      *)
(***************************************************************************)
C2_UpdateIsDeleteThenAdd ==
  \A key \in Keys :
    LET input == FreshInput(rnd)
        u == update_key(World, input.type, key, input.value, input.m_time,
                        Len(input.value))
        d == delete_key(World, key)
        a == add_key(d.w, input.type, key, input.value, input.m_time,
                     Len(input.value))
        old == SlotOf(World, key)
        new == SlotOf(u.w, key)
    IN  (info.is_open /\ get_info(info.key_info, key) /\ ~Full(file)
         /\ u.ret = VE_SUCCESS)
        => /\ u = a
           /\ get_info(u.w.info.key_info, key)
           /\ u.w.file.loc[old].state = STATE_DELETED
           /\ new # old
           /\ u.w.file.loc[new].state = STATE_ACTIVE
           /\ Reads(ReadValue(u.w, key), input)

(***************************************************************************)
(* C3.  Compaction keeps the contents.  When add_key of an absent key      *)
(* meets a full location table and returns, every key that was in the      *)
(* index is still in it and reads as before (value, length, type, time),   *)
(* the new key reads as added, and the hash that ends the file verifies.   *)
(* The program does not keep this: internal_condense_file leaves the       *)
(* entries that already stand at the head of the table at their old        *)
(* offsets.                                                                *)
(***************************************************************************)
C3_CompactionKeepsContents ==
  \A key \in Keys :
    LET input == FreshInput(rnd)
        a == add_key(World, input.type, key, input.value, input.m_time,
                     Len(input.value))
    IN  (info.is_open /\ Full(file) /\ ~get_info(info.key_info, key))
        => /\ a.ret = VE_SUCCESS
           /\ \A k \in get_keys(info.key_info) :
                /\ k \in get_keys(a.w.info.key_info)
                /\ ReadFromFile(a.w, k) = ReadFromFile(World, k)
           /\ Reads(ReadFromFile(a.w, key), input)
           /\ FileHashMatches(a.w.file, MasterOf(a.w.file))

(***************************************************************************)
(* C4.  In every reachable state of an open vault every location entry     *)
(* whose state is ACTIVE delimits, inside the data that starts at          *)
(* HEADER_SIZE + LOC_SIZE * loc_len, an entry whose hash verifies and      *)
(* whose value decrypts under the master key.                              *)
(* The program does not keep this after a compaction.                      *)
(***************************************************************************)
C4_ActiveSlotsDelimitEntries ==
  info.is_open =>
    \A i \in 1..file.loc_len :
      file.loc[i].state = STATE_ACTIVE =>
        LET r == ReadBox(file, file.loc[i], info.decrypted_master)
        IN  /\ file.loc[i].file_loc >= HEADER_SIZE + LOC_SIZE * file.loc_len
            /\ file.loc[i].file_loc + RecordSize(file.loc[i])
                 <= FileSize(file) - HASH_SIZE
            /\ r.hash_ok
            /\ r.opens

(***************************************************************************)
(* C5.  Capacity growth.  loc_len is INITIAL_SIZE in a new file; it        *)
(* changes only in a call that meets a full location table, and then to    *)
(* twice its value; and whenever no location entry is unused, add_key of   *)
(* an absent key returns VE_SUCCESS and leaves loc_len doubled.            *)
(***************************************************************************)
C5_CapacityGrowth ==
  /\ [](info.is_open /\ Full(file) =>
          \A key \in Keys :
            LET input == FreshInput(rnd)
                a == add_key(World, input.type, key, input.value, input.m_time,
                             Len(input.value))
            IN  ~get_info(info.key_info, key) =>
                  /\ a.ret = VE_SUCCESS
                  /\ a.w.file.loc_len = 2 * file.loc_len)
  /\ [][/\ (~exists /\ exists') => file'.loc_len = INITIAL_SIZE
        /\ (exists /\ file'.loc_len # file.loc_len) =>
             /\ Full(file)
             /\ file'.loc_len = 2 * file.loc_len
             /\ last'.op \in {"add_key", "update_key"}
             /\ last'.ret = VE_SUCCESS]_vars

\* A call has met a full table and has added its key to the doubled one.
C5_Grown ==
  /\ last.op \in {"add_key", "update_key"}
  /\ last.ret = VE_SUCCESS
  /\ file.loc_len = 2 * INITIAL_SIZE
  /\ get_info(info.key_info, last.key)

\* The mutations of the file, applied to the current state.
Mutations ==
  LET input == FreshInput(rnd)
      len == Len(input.value)
      master == info.decrypted_master
  IN  {create_vault(World, pw) : pw \in Passwords}
      \cup {create_from_header(World, pw, ServerHeader("hunter2")) :
              pw \in Passwords}
      \cup {add_key(World, input.type, key, input.value, input.m_time, len) :
              key \in Keys}
      \cup {add_encrypted_value(World, key, ServerEntry(key, master, FALSE),
                                ChunkSize(ServerEntry(key, master, FALSE)),
                                3, 4000) : key \in Keys}
      \cup {delete_key(World, key) : key \in Keys}
      \cup {update_key(World, input.type, key, input.value, input.m_time, len) :
              key \in Keys}
      \cup {change_password(World, old, new) :
              old \in Passwords, new \in Passwords}
      \cup {set_last_server_time(World, 5000)}
      \cup {update_key_from_recovery(World, response, "blue",
              ServerRecovery.recovery_result, ServerRecovery.data_salt_11,
              ServerRecovery.data_salt_21, new) :
              response \in Responses, new \in Passwords}
      \cup (IF info.is_open
            THEN {Ret([World EXCEPT
                         !.file = internal_condense_file(file, master).file],
                      VE_SUCCESS)}
            ELSE {})

(***************************************************************************)
(* C6.  File MAC closure.  The last HASH_SIZE bytes of the file are the    *)
(* hash, under the master key, of all the bytes before them: in every      *)
(* reachable state in which the file exists, and after each of the         *)
(* mutations create_vault, create_from_header, add_key,                    *)
(* add_encrypted_value, delete_key, update_key, compaction,                *)
(* change_password, set_last_server_time and update_key_from_recovery,     *)
(* applied to a reachable state, when it returns VE_SUCCESS.               *)
(***************************************************************************)
C6_MacClosure ==
  /\ exists => FileHashMatches(file, MasterOf(file))
  /\ \A r \in Mutations :
       (r.ret = VE_SUCCESS /\ r.w.exists) =>
         FileHashMatches(r.w.file, MasterOf(r.w.file))

\* A key has been deleted, the table compacted and the password changed, in
\* one run.
C6_Mutated ==
  /\ exists
  /\ file.loc_len = 2 * INITIAL_SIZE
  /\ password = "trustno1"
  /\ Len(file.data) > 1

(***************************************************************************)
(* C7.  File size.  The length of the file is HEADER_SIZE, LOC_SIZE bytes  *)
(* for each location entry, the sizes of the entries of all ACTIVE and     *)
(* DELETED location entries, and HASH_SIZE for the one hash that ends it;  *)
(* delete_key leaves the length as it is.                                  *)
(* The program does not keep this: delete_key writes its hash after the    *)
(* hash that ends the file.                                                *)
(***************************************************************************)
C7_FileSize ==
  exists =>
    FileSize(file) = HEADER_SIZE + LOC_SIZE * file.loc_len
                     + SumOfRecords(file.loc, file.loc_len) + HASH_SIZE

(***************************************************************************)
(* Alterations, for the claims about them.                                 *)
(***************************************************************************)
\* The envelope of the header opens under the password of the vault and the
\* hash that ends the file verifies: a file as successful calls leave it.
Intact(f) ==
  /\ secretbox_opens(f.enc_master, f.master_nonce, PW_HASH(password, f.salt))
  /\ FileHashMatches(f, MasterOf(f))

\* The bytes of a file before the hash that ends it.
BeforeHash(f) == [f EXCEPT !.data = SubSeq(@, 1, Len(@) - 1)]

\* A step of the adversary on an intact file that no session has open and no
\* descriptor has locked; it alters bytes before the hash that ends the file.
ClosedAlteration ==
  /\ adversary' < adversary
  /\ ~info.is_open
  /\ ~locked
  /\ Intact(file)
  /\ BeforeHash(file') # BeforeHash(file)

\* The step alters the salt, the sealed master key or its nonce.
EnvelopeAltered ==
  \/ file'.salt # file.salt
  \/ file'.enc_master # file.enc_master
  \/ file'.master_nonce # file.master_nonce

\* A step of the adversary, on a file that a session has open, that alters
\* the entry of a key of the index; the entry was sound before.
RecordAltered(key) ==
  /\ adversary' < adversary
  /\ info.is_open
  /\ get_info(info.key_info, key)
  /\ LET loc == file.loc[SlotOf(World, key)]
         j == ChunkAt(file, loc.file_loc)
         r == ReadBox(file, loc, info.decrypted_master)
     IN  /\ r.hash_ok
         /\ r.opens
         /\ file'.data[j] # file.data[j]

C9_AnyOpenKeyFails ==
  [][\A key \in Keys :
       RecordAltered(key) =>
         LET o == open_key(World', key)
         IN  /\ o.ret = VE_CRYPTOERR
             /\ o.w.info.current_box.key # key]_vars

(***************************************************************************)
(* C9, amended.  After an alteration of any byte of the entry of a live    *)
(* key while the vault is open, open_key of the key returns VE_CRYPTOERR   *)
(* and leaves the box as it was, unless the value of the key is the open   *)
(* one: then open_key returns VE_SUCCESS without reading the file and the  *)
(* box keeps the value read before the alteration.                         *)
(***************************************************************************)
C9_RecordTamperDetected ==
  [][\A key \in Keys :
       RecordAltered(key) =>
         LET o == open_key(World', key)
         IN  /\ o.ret = IF info.current_box.key = key
                        THEN VE_SUCCESS ELSE VE_CRYPTOERR
             /\ o.w.info.current_box = info.current_box]_vars

\* open_key has returned VE_CRYPTOERR for a key of the index on an altered
\* file.
C9_Detected ==
  /\ last.op = "open_key"
  /\ last.ret = VE_CRYPTOERR
  /\ get_info(info.key_info, last.key)
  /\ info.current_box.key # last.key
  /\ adversary < MaxTamper

Content(w, key) ==
  LET r == ReadFromFile(w, key)
  IN  IF r.ret = VE_SUCCESS THEN r
      ELSE [ret |-> r.ret, result |-> <<>>, len |-> 0, type |-> 0, m_time |-> 0]

\* The keys that get_vault_keys lists, each with what the vault holds for it.
Contents(w) == [key \in get_vault_keys(w).results |-> Content(w, key)]

\* close_vault, then open_vault with a password.
Reopen(w, pw) == open_vault(close_vault(w).w, pw)

(***************************************************************************)
(* C11.  Password independence, as stated: when change_password(old, new)  *)
(* returns VE_SUCCESS and the vault is closed, open_vault with old returns *)
(* VE_WRONGPASS, open_vault with new returns VE_SUCCESS, and the keys with *)
(* their values, types and times are those of before the change.           *)
(* This does not hold when new is the password old: see                    *)
(* C11_PasswordIndependence.                                               *)
(***************************************************************************)
C11_OldNeverOpens ==
  \A old \in Passwords, new \in Passwords :
    LET c == change_password(World, old, new)
    IN  c.ret = VE_SUCCESS =>
          /\ Reopen(c.w, old).ret = VE_WRONGPASS
          /\ Reopen(c.w, new).ret = VE_SUCCESS
          /\ Contents(Reopen(c.w, new).w) = Contents(World)

(***************************************************************************)
(* C11, amended.  When change_password(old, new) returns VE_SUCCESS and    *)
(* the vault is closed, open_vault with new returns VE_SUCCESS, open_vault *)
(* with every password other than new, old among them when it differs from *)
(* new, returns VE_WRONGPASS, and the keys with their values, types and    *)
(* times are those of before the change.                                   *)
(***************************************************************************)
C11_PasswordIndependence ==
  \A old \in Passwords, new \in Passwords :
    LET c == change_password(World, old, new)
    IN  c.ret = VE_SUCCESS =>
          /\ \A pw \in Passwords :
               Reopen(c.w, pw).ret = IF pw = new THEN VE_SUCCESS ELSE VE_WRONGPASS
          /\ Contents(Reopen(c.w, new).w) = Contents(World)

\* change_password has replaced the password of a vault that holds a key by
\* another one; closed, the vault opens with the new one and not with the old.
C11_Changed ==
  /\ last.op = "change_password"
  /\ last.ret = VE_SUCCESS
  /\ last.pw = "hunter2"
  /\ password = "trustno1"
  /\ get_vault_keys(World).results # {}
  /\ Reopen(World, "trustno1").ret = VE_SUCCESS
  /\ Reopen(World, "hunter2").ret = VE_WRONGPASS

(***************************************************************************)
(* C12.  Frame of change_password.  When change_password returns           *)
(* VE_SUCCESS, the file differs from the one before only in the salt, the  *)
(* sealed master key, its nonce and the hash that ends the file, and the   *)
(* session only in derived_key: loc_len, the location table, every entry   *)
(* of the data, the server time, the master key in memory, the index and   *)
(* the open value are the same.  When the vault is open and the old        *)
(* password does not open the envelope of the header, it returns           *)
(* VE_WRONGPASS and neither the file nor the session changes.              *)
(***************************************************************************)
C12_ChangePasswordFrame ==
  \A old \in Passwords, new \in Passwords :
    LET c == change_password(World, old, new)
        opens == secretbox_opens(file.enc_master, file.master_nonce,
                                 PW_HASH(old, file.salt))
    IN  /\ c.ret = VE_SUCCESS =>
             /\ BeforeHash([c.w.file EXCEPT !.salt = file.salt,
                                            !.enc_master = file.enc_master,
                                            !.master_nonce = file.master_nonce])
                = BeforeHash(file)
             /\ Len(c.w.file.data) = Len(file.data)
             /\ c.w.file.data[Len(file.data)].kind = "hash"
             /\ FileSize(c.w.file) = FileSize(file)
             /\ [c.w.info EXCEPT !.derived_key = info.derived_key] = info
             /\ c.w.info.derived_key = PW_HASH(new, c.w.file.salt)
             /\ c.w.exists = exists
             /\ c.w.locked = locked
        /\ (info.is_open /\ ~opens) =>
             /\ c.ret = VE_WRONGPASS
             /\ c.w.file = file
             /\ c.w.info = info
             /\ c.w.exists = exists
             /\ c.w.locked = locked

\* change_password has succeeded on a vault that holds a key and an open
\* value, and change_password with a password that does not open the
\* envelope is refused there.
C12_Resealed ==
  /\ last.op = "change_password"
  /\ last.ret = VE_SUCCESS
  /\ info.current_box.key # <<>>
  /\ get_vault_keys(World).results # {}
  /\ \E old \in Passwords : change_password(World, old, old).ret = VE_WRONGPASS

(***************************************************************************)
(* The recovery flow.                                                      *)
(***************************************************************************)
\* What create_data_for_server gave, for two answers, in a session that had
\* the vault of the file open.
RecoveryData(response1, response2) ==
  create_data_for_server(
    [World EXCEPT !.info = [InitInfo EXCEPT !.is_open = TRUE,
                                            !.decrypted_master = file.enc_master.pt],
                  !.rnd = 0],
    response1, response2)

\* update_key_from_recovery with the answers r1 and r2, for recovery data
\* made with the answers d1 and d2.
Recover(d1, d2, r1, r2, new_password) ==
  LET d == RecoveryData(d1, d2)
  IN  update_key_from_recovery(World, r1, r2, d.recovery_result,
                               d.data_salt_11, d.data_salt_21, new_password)

\* A vault closed by close_vault: the file is there, no session has it open
\* and no descriptor holds its lock.
ClosedVault == exists /\ ~info.is_open /\ ~locked

(***************************************************************************)
(* C13.  Recovery flow, as stated: on a closed vault, for recovery data    *)
(* that create_data_for_server made with the answers r1 and r2,            *)
(* update_key_from_recovery with r1, r2 and a new password returns         *)
(* VE_SUCCESS, a following open_vault with the new password returns        *)
(* VE_SUCCESS, and every key stored is retrievable with its value.         *)
(* This does not hold for the open_vault that follows: see                 *)
(* C13_RecoveryFlow.                                                       *)
(***************************************************************************)
C13_OpenAfterRecovery ==
  \A r1 \in Responses, r2 \in Responses, new \in Passwords :
    ClosedVault =>
      LET u == Recover(r1, r2, r1, r2, new)
          o == open_vault(u.w, new)
      IN  /\ u.ret = VE_SUCCESS
          /\ o.ret = VE_SUCCESS
          /\ Contents(o.w) = Contents(open_vault(World, password).w)

(***************************************************************************)
(* C13, amended.  On a closed vault, for recovery data that                *)
(* create_data_for_server made with the answers r1 and r2,                 *)
(* update_key_from_recovery with r1, r2 and a new password returns         *)
(* VE_SUCCESS and leaves the vault open, with every key stored retrievable *)
(* as before; an open_vault that follows returns VE_VOPEN; after           *)
(* close_vault, open_vault with the new password returns VE_SUCCESS and    *)
(* every key stored is retrievable as before.                              *)
(***************************************************************************)
C13_RecoveryFlow ==
  \A r1 \in Responses, r2 \in Responses, new \in Passwords :
    ClosedVault =>
      LET u == Recover(r1, r2, r1, r2, new)
          o == Reopen(u.w, new)
          before == Contents(open_vault(World, password).w)
      IN  /\ u.ret = VE_SUCCESS
          /\ u.w.info.is_open
          /\ Contents(u.w) = before
          /\ open_vault(u.w, new).ret = VE_VOPEN
          /\ o.ret = VE_SUCCESS
          /\ Contents(o.w) = before

\* update_key_from_recovery has given a new password to a vault that holds a
\* key, whose value open_key reads.
C13_Recovered ==
  /\ last.op = "update_key_from_recovery"
  /\ last.ret = VE_SUCCESS
  /\ last.pw = "trustno1"
  /\ password = "trustno1"
  /\ \E key \in get_vault_keys(World).results : Content(World, key).ret = VE_SUCCESS

(***************************************************************************)
(* C14.  Recovery rejects wrong answers.  On a closed vault, for recovery  *)
(* data that create_data_for_server made with the answers d1 and d2,       *)
(* update_key_from_recovery with answers of which one or both differ from  *)
(* d1 and d2 returns VE_WRONGPASS, leaves every byte of the file as it     *)
(* was and the session closed, and open_vault with the password of before  *)
(* still returns VE_SUCCESS.                                               *)
(***************************************************************************)
C14_WrongAnswersRejected ==
  \A d1 \in Responses, d2 \in Responses, r1 \in Responses, r2 \in Responses,
     new \in Passwords :
    (ClosedVault /\ <<r1, r2>> # <<d1, d2>>) =>
      LET u == Recover(d1, d2, r1, r2, new)
      IN  /\ u.ret = VE_WRONGPASS
          /\ u.w.file = file
          /\ u.w.exists
          /\ ~u.w.info.is_open
          /\ ~u.w.locked
          /\ u.w.info.decrypted_master = info.decrypted_master
          /\ open_vault(u.w, password).ret = VE_SUCCESS

\* update_key_from_recovery has returned VE_WRONGPASS for a wrong answer, on a
\* vault whose password still opens it.
C14_Rejected ==
  /\ last.op = "update_key_from_recovery"
  /\ last.ret = VE_WRONGPASS
  /\ ClosedVault
  /\ open_vault(World, password).ret = VE_SUCCESS

(***************************************************************************)
(* C15.  HotBox coherence.  In every reachable state of an open vault, if  *)
(* the box holds a key that is not empty, the key is in the index and the  *)
(* value, the type and the length of the box are those of the entry of the *)
(* key in the file, so that place_open_value never returns the value of an *)
(* entry deleted or replaced.                                              *)
(* The program does not keep this: delete_key and update_key leave the box *)
(* as it is.                                                               *)
(***************************************************************************)
C15_HotBoxCoherent ==
  (info.is_open /\ info.current_box.key # <<>>) =>
    /\ get_info(info.key_info, info.current_box.key)
    /\ LET r == ReadFromFile(World, info.current_box.key)
       IN  /\ r.ret = VE_SUCCESS
           /\ r.result = info.current_box.value
           /\ r.len = info.current_box.val_len
           /\ r.type = info.current_box.type

(***************************************************************************)
(* C16.  Tombstone invisibility.  In every reachable state, when           *)
(* delete_key of a key returns VE_SUCCESS: open_key of the key returns     *)
(* VE_KEYEXIST, get_vault_keys does not list the key and num_vault_keys is *)
(* one less than before, in the session as delete_key leaves it (no        *)
(* compaction has run) and in the session after close_vault and            *)
(* open_vault.                                                             *)
(***************************************************************************)
C16_TombstoneInvisible ==
  \A key \in Keys :
    LET d == delete_key(World, key)
        o == Reopen(d.w, password)
    IN  d.ret = VE_SUCCESS =>
          /\ open_key(d.w, key).ret = VE_KEYEXIST
          /\ key \notin get_vault_keys(d.w).results
          /\ num_vault_keys(d.w) = num_vault_keys(World) - 1
          /\ d.w.file.loc_len = file.loc_len
          /\ o.ret = VE_SUCCESS
          /\ open_key(o.w, key).ret = VE_KEYEXIST
          /\ key \notin get_vault_keys(o.w).results
          /\ num_vault_keys(o.w) = num_vault_keys(World) - 1

\* delete_key has succeeded for a key whose value was open, in a vault that
\* holds another key.
C16_Deleted ==
  /\ last.op = "delete_key"
  /\ last.ret = VE_SUCCESS
  /\ info.current_box.key = last.key
  /\ last.key \notin get_vault_keys(World).results
  /\ get_vault_keys(World).results # {}

(***************************************************************************)
(* The index and the location table.                                       *)
(***************************************************************************)
\* The location entries whose state is ACTIVE.
ActiveSlots(f) == {i \in 1..Len(f.loc) : f.loc[i].state = STATE_ACTIVE}

\* An entry of the data starts at the file_loc of a location entry.
EntryAt(f, i) ==
  LET j == ChunkAt(f, f.loc[i].file_loc)
  IN  j # 0 /\ f.data[j].kind = "entry"

\* The key of that entry.
KeyAt(f, i) == f.data[ChunkAt(f, f.loc[i].file_loc)].key

(***************************************************************************)
(* C17.  Index/slot bijection.  In every reachable state of an open vault, *)
(* after every call (compaction and add_encrypted_value among them): the   *)
(* index has exactly one key for every ACTIVE location entry and no other, *)
(* the offset that the index holds for a key is that of its location       *)
(* entry, the key is the one of the entry that the file holds there, and   *)
(* no two ACTIVE location entries carry the same key.                      *)
(* The program does not keep this after a compaction.                      *)
(***************************************************************************)
C17_IndexSlotBijection ==
  info.is_open =>
    LET map == info.key_info
        slot(key) == (map[key].inode_loc - HEADER_SIZE) \div LOC_SIZE + 1
    IN  /\ \A key \in DOMAIN map :
             /\ map[key].inode_loc = LocOffset(slot(key))
             /\ slot(key) \in ActiveSlots(file)
             /\ EntryAt(file, slot(key))
             /\ KeyAt(file, slot(key)) = key
        /\ \A i \in ActiveSlots(file) :
             Cardinality({key \in DOMAIN map : slot(key) = i}) = 1
        /\ \A i \in ActiveSlots(file), j \in ActiveSlots(file) :
             (i # j /\ EntryAt(file, i) /\ EntryAt(file, j)) =>
               KeyAt(file, i) # KeyAt(file, j)

(***************************************************************************)
(* C18.  Memory lock bracket.  Between the calls, that is in every         *)
(* reachable state, the guarded memory of the session is no-access: every  *)
(* call that makes it read-write makes it no-access again before it        *)
(* returns, with VE_SUCCESS or with an error, VE_EXIST, VE_ACCESS and      *)
(* VE_SYSCALL of create_vault, create_from_header, open_vault and          *)
(* update_key_from_recovery among them.                                    *)
(* The program does not keep this: these four return with the memory       *)
(* read-write when the file cannot be opened or locked.                    *)
(***************************************************************************)
C18_MemoryLockBracket == mem = "noaccess"

(***************************************************************************)
(* C19.  VE_NOSPACE is never returned.  In every reachable state, add_key, *)
(* update_key and add_encrypted_value of any key return a code other than  *)
(* VE_NOSPACE: when the location table is full, the append that follows    *)
(* the compaction finds an UNUSED location entry.                          *)
(***************************************************************************)
C19_NoSpaceNeverReturned ==
  \A key \in Keys \cup {LongKey} :
    LET input == FreshInput(rnd)
        len == Len(input.value)
        master == info.decrypted_master
    IN  /\ add_key(World, input.type, key, input.value, input.m_time, len).ret
             # VE_NOSPACE
        /\ update_key(World, input.type, key, input.value, input.m_time, len).ret
             # VE_NOSPACE
        /\ \A forged \in BOOLEAN :
             add_encrypted_value(World, key, ServerEntry(key, master, forged),
                                 ChunkSize(ServerEntry(key, master, forged)),
                                 3, 4000).ret # VE_NOSPACE
        /\ (info.is_open /\ Full(file)) =>
             FirstFreeLoc(internal_condense_file(file, master).file) # 0

\* A call has met a full location table, and its append after the compaction
\* has found an UNUSED location entry.
C19_Retried ==
  /\ last.op \in {"add_key", "update_key"}
  /\ last.ret = VE_SUCCESS
  /\ file.loc_len > INITIAL_SIZE
  /\ FirstFreeLoc(file) # 0
  /\ file.loc[FirstFreeLoc(file) - 1].state = STATE_ACTIVE

(***************************************************************************)
(* The guards of the life cycle.                                           *)
(***************************************************************************)
\* A call has left the session (keys, box, index, descriptor) and the file
\* as they are.
Untouched(r) ==
  /\ r.w.info = info
  /\ r.w.file = file
  /\ r.w.exists = exists
  /\ r.w.locked = locked

\* The four calls that open a vault, with every argument of the model.
Openers ==
  {create_vault(World, pw) : pw \in Passwords}
  \cup {create_from_header(World, pw, ServerHeader("hunter2")) : pw \in Passwords}
  \cup {open_vault(World, pw) : pw \in Passwords}
  \cup {Recover("blue", "blue", r1, "blue", new) :
          r1 \in Responses, new \in Passwords}

\* The calls on an open vault that take a key and change the session or the
\* file, and those that take none.
KeyCalls(key) ==
  LET input == FreshInput(rnd)
      len == Len(input.value)
      entry == ServerEntry(key, info.decrypted_master, FALSE)
  IN  {[ret |-> r.ret, w |-> r.w] :
         r \in {add_key(World, input.type, key, input.value, input.m_time, len),
                delete_key(World, key),
                update_key(World, input.type, key, input.value, input.m_time, len),
                open_key(World, key),
                add_encrypted_value(World, key, entry, ChunkSize(entry), 3, 4000)}}
OtherCalls ==
  {[ret |-> r.ret, w |-> r.w] :
     r \in {close_vault(World), set_last_server_time(World, 5000),
            create_data_for_server(World, "blue", "blue")}}
  \cup {change_password(World, old, new) : old \in Passwords, new \in Passwords}

\* The codes of the calls that only read.
KeyReads(key) ==
  {last_modified_time(World, key), get_encrypted_value(World, key).ret}
OtherReads ==
  {place_open_value(World).ret, get_vault_keys(World).ret, num_vault_keys(World),
   get_last_server_time(World), get_header(World).ret}

C21_KeyPresence ==
  \A key \in Keys :
    LET input == FreshInput(rnd)
        len == Len(input.value)
        master == info.decrypted_master
        Refused(r) == r.ret = VE_KEYEXIST /\ Untouched(r)
    IN  info.is_open =>
          IF get_info(info.key_info, key)
          THEN /\ Refused(add_key(World, input.type, key, input.value,
                                  input.m_time, len))
               /\ \A forged \in BOOLEAN :
                    Refused(add_encrypted_value(World, key,
                              ServerEntry(key, master, forged),
                              ChunkSize(ServerEntry(key, master, forged)),
                              3, 4000))
          ELSE /\ Refused(delete_key(World, key))
               /\ Refused(open_key(World, key))
               /\ get_encrypted_value(World, key).ret = VE_KEYEXIST
               /\ last_modified_time(World, key) = VE_KEYEXIST

\* An open vault holds one key and not the other, a value is open, and the
\* calls are refused: add_key of the key held, delete_key of the other.
C21_Refused ==
  /\ info.is_open
  /\ get_info(info.key_info, <<1>>)
  /\ ~get_info(info.key_info, <<2>>)
  /\ info.current_box.key = <<1>>
  /\ add_key(World, 1, <<1>>, <<7>>, 1, 1).ret = VE_KEYEXIST
  /\ delete_key(World, <<2>>).ret = VE_KEYEXIST
  /\ open_key(World, <<2>>).ret = VE_KEYEXIST

(***************************************************************************)
(* C22.  close_vault.  In every reachable state: on an open vault          *)
(* close_vault returns VE_SUCCESS and leaves is_open false, derived_key,   *)
(* decrypted_master and the box zeroed, the index dropped, the lock of the *)
(* file released and the file as it was; open_vault with the password of   *)
(* the vault, by this session or by the new session of another process,    *)
(* then returns VE_SUCCESS and lists the keys that were listed before the  *)
(* close.  On a closed session close_vault returns VE_VCLOSE.              *)
(***************************************************************************)
C22_CloseVault ==
  LET c == close_vault(World)
      here == open_vault(c.w, password)
      there == open_vault([c.w EXCEPT !.info = InitInfo], password)
  IN  /\ info.is_open =>
           /\ c.ret = VE_SUCCESS
           /\ ~c.w.info.is_open
           /\ c.w.info.derived_key = ZeroKey
           /\ c.w.info.decrypted_master = ZeroKey
           /\ c.w.info.current_box = ZeroedBox
           /\ c.w.info.key_info = init_map
           /\ ~c.w.locked
           /\ c.w.file = file
           /\ here.ret = VE_SUCCESS
           /\ get_vault_keys(here.w).results = get_vault_keys(World).results
           /\ there.ret = VE_SUCCESS
           /\ get_vault_keys(there.w).results = get_vault_keys(World).results
      /\ ~info.is_open => c.ret = VE_VCLOSE /\ Untouched(c)

\* close_vault has closed a vault of two keys; the session holds no key, no
\* value and no lock, and open_vault with the password lists the two keys.
C22_Closed ==
  /\ last.op = "close_vault"
  /\ last.ret = VE_SUCCESS
  /\ ~info.is_open
  /\ ~locked
  /\ info.decrypted_master = ZeroKey
  /\ info.current_box = ZeroedBox
  /\ open_vault(World, password).ret = VE_SUCCESS
  /\ get_vault_keys(open_vault(World, password).w).results = Keys
  /\ close_vault(World).ret = VE_VCLOSE

(***************************************************************************)
(* C23.  Cross-process exclusion.  For two processes that interleave       *)
(* create_vault, open_vault and close_vault on one vault file: at most one *)
(* has the vault open at any time; a call of create_vault or open_vault    *)
(* that returns while a descriptor of the other process holds the lock of  *)
(* the file returns VE_SYSCALL and has neither made nor written the file;  *)
(* and once no call is under way and no vault is open, the lock is free    *)
(* and open_vault of the file with the password succeeds.                  *)
(* The program does not keep this: create_vault makes the file before it   *)
(* asks for the lock, and returns VE_EXIST for a file that the other       *)
(* process holds.                                                          *)
(***************************************************************************)
C23_CrossProcessExclusion ==
  /\ [](\A p \in Procs, q \in Procs :
          (procs[p].info.is_open /\ procs[q].info.is_open) => p = q)
  /\ [][\A p \in Procs, q \in Procs :
          (p # q /\ procs[p].pc # <<>> /\ procs'[p].pc = <<>> /\ procs[q].lock)
          => /\ procs'[p].ret = VE_SYSCALL
             /\ ~procs'[p].wrote]_vars
  /\ []((\A p \in Procs : procs[p].pc = <<>> /\ ~procs[p].info.is_open)
        => /\ ~LockHeld
           /\ exists => open_vault(ProcWorld(1), ProcPassword).ret = VE_SUCCESS)

(***************************************************************************)
(* Interrupted calls.  A call that changes the file makes its writes one   *)
(* after the other, the hash that ends the file last; a process that dies  *)
(* in between leaves the file as the writes made so far have it.  Each     *)
(* operator below gives these files in the order of the writes, the file   *)
(* with its new hash left out.                                             *)
(***************************************************************************)
\* The writes of internal_append_key with the location entry written before
\* the entry (a variant that the checks of C36 must tell from
\* AppendKeyWrites).
AppendKeyWritesSlotFirst(f, master, type, key, value, m_time, val_len, nonce) ==
  LET next_loc == FirstFreeLoc(f)
      e_val == crypto_secretbox_easy(SubSeq(value, 1, val_len), nonce, master)
      entry == [kind |-> "entry", m_time |-> m_time, type |-> type, key |-> key,
                e_val |-> e_val, ct_len |-> val_len, val_nonce |-> nonce,
                hash |-> crypto_generichash(<<m_time, type, key, e_val, nonce>>,
                                            master)]
      a1 == [f EXCEPT !.loc[next_loc] =
               [state |-> STATE_ACTIVE, file_loc |-> FileSize(f) - HASH_SIZE,
                key_len |-> Len(key), val_len |-> val_len]]
      a2 == [a1 EXCEPT !.data = Append(SubSeq(f.data, 1, Len(f.data) - 1), entry)]
  IN  IF next_loc = 0 THEN <<>> ELSE <<a1, a2>>

\* internal_append_key: the entry over the hash that ends the file, then the
\* location entry.
AppendKeyWrites(f, master, type, key, value, m_time, val_len, nonce) ==
  LET next_loc == FirstFreeLoc(f)
      e_val == crypto_secretbox_easy(SubSeq(value, 1, val_len), nonce, master)
      entry == [kind |-> "entry", m_time |-> m_time, type |-> type, key |-> key,
                e_val |-> e_val, ct_len |-> val_len, val_nonce |-> nonce,
                hash |-> crypto_generichash(<<m_time, type, key, e_val, nonce>>,
                                            master)]
      a1 == [f EXCEPT !.data = Append(SubSeq(f.data, 1, Len(f.data) - 1), entry)]
      a2 == [a1 EXCEPT !.loc[next_loc] =
               [state |-> STATE_ACTIVE, file_loc |-> FileSize(f) - HASH_SIZE,
                key_len |-> Len(key), val_len |-> val_len]]
  IN  IF next_loc = 0 THEN <<>> ELSE <<a1, a2>>

\* internal_condense_file: the data at its new offset, loc_len, the location
\* entries kept, the zeros after them, the truncation.  The new data lie
\* over the old ones until the table is whole and the file cut: up to there
\* the data are bytes that the model does not know, and so are the location
\* entries that the table gains before they are written.
CondenseWrites(f, master) ==
  LET loc_size == f.loc_len
      old_data_offset == loc_size * LOC_SIZE + HEADER_SIZE
      new_data_offset == loc_size * LOC_SIZE + old_data_offset
      st == CondenseLoop(1, loc_size,
              [old |-> old_data_offset, new |-> new_data_offset],
              [loc_data |-> f.loc,
               box_data |-> BoxData(SubSeq(f.data, 1, Len(f.data) - 1), 0),
               data_replacement_loc |-> 0,
               loc_replacement_index |-> 0])
      new_data_size == st.data_replacement_loc
      valid_loc_entries == st.loc_replacement_index
      new_loc_size == loc_size * 2
      new_file_size == new_data_offset + new_data_size
      end == IF FileSize(f) > new_file_size THEN FileSize(f) ELSE new_file_size
      torn(from) == [kind |-> "torn", size |-> end - from]
      unwritten(i) == [state |-> Unknown(LocOffset(i)),
                       file_loc |-> Unknown(LocOffset(i)),
                       key_len |-> Unknown(LocOffset(i)),
                       val_len |-> Unknown(LocOffset(i))]
      cut == [f EXCEPT
                !.loc_len = new_loc_size,
                !.loc = [i \in 1..new_loc_size |->
                           IF i <= valid_loc_entries THEN st.loc_data[i]
                           ELSE EmptyLoc],
                !.data = BoxBytes(st.box_data, 0, new_data_size)]
      k1 == IF new_data_size = 0 THEN f
            ELSE [f EXCEPT !.data = <<torn(old_data_offset)>>]
      k2 == [f EXCEPT !.loc_len = new_loc_size,
                      !.loc = [i \in 1..new_loc_size |->
                                 IF i <= loc_size THEN f.loc[i] ELSE unwritten(i)],
                      !.data = <<torn(new_data_offset)>>]
      k3 == [k2 EXCEPT !.loc = [i \in 1..new_loc_size |->
                                  IF i <= valid_loc_entries THEN st.loc_data[i]
                                  ELSE k2.loc[i]]]
      k4 == [cut EXCEPT !.data = IF FileSize(f) > new_file_size
                                 THEN Append(@, torn(new_file_size)) ELSE @]
  IN  <<k1, k2, k3, k4, cut>>

\* delete_key: the state of the location entry, then the zeros over the value.
DeleteKeyWrites(f, i) ==
  LET d1 == [f EXCEPT !.loc[i].state = STATE_DELETED]
  IN  <<d1, ZeroValue(d1, f.loc[i])>>

\* change_password: the salt, the sealed master key, its nonce.
ChangePasswordWrites(f, master, new_password) ==
  LET salt == randombytes_buf(f.salt)
      master_nonce == randombytes_buf(f.master_nonce)
      c1 == [f EXCEPT !.salt = salt]
      c2 == [c1 EXCEPT !.enc_master =
               crypto_secretbox_easy(master, master_nonce,
                                     PW_HASH(new_password, salt))]
  IN  <<c1, c2, [c2 EXCEPT !.master_nonce = master_nonce]>>

\* set_last_server_time: the time.
ServerTimeWrites(f, timestamp) == <<[f EXCEPT !.ser_time = timestamp]>>

\* The files that an interrupted call leaves, each with the call, the
\* password that the call was to set and the number of writes made.
Torn(op, pw, writes) ==
  {[op |-> op, pw |-> pw, step |-> k, file |-> writes[k]] : k \in 1..Len(writes)}

\* The interrupted calls of a session that has the vault open: add_key of a
\* key that the index does not hold, with the compaction that a full table
\* asks for, delete_key of a key that it holds, change_password with the
\* password of the vault, set_last_server_time.  A call interrupted before
\* it has changed a byte is left out.
Interrupted(w) ==
  LET f == w.file
      master == w.info.decrypted_master
      input == FreshInput(w.rnd)
      Added(g, key) == AppendKeyWrites(g, master, input.type, key, input.value,
                                       input.m_time, Len(input.value), w.rnd + 1)
      all ==
        UNION {IF get_info(w.info.key_info, key)
               THEN Torn("delete_key", "",
                         DeleteKeyWrites(f, LocIndex(w.info.key_info[key].inode_loc)))
               ELSE IF FirstFreeLoc(f) # 0 THEN Torn("add_key", "", Added(f, key))
               ELSE Torn("compaction", "", CondenseWrites(f, master))
                    \cup Torn("add_key", "",
                              Added(internal_condense_file(f, master).file, key))
               : key \in Keys}
        \cup UNION {IF secretbox_opens(f.enc_master, f.master_nonce,
                                       PW_HASH(old, f.salt))
                    THEN Torn("change_password", new,
                              ChangePasswordWrites(f, master, new))
                    ELSE {} : old \in Passwords, new \in Passwords}
        \cup Torn("set_last_server_time", "", ServerTimeWrites(f, 5000))
  IN  IF w.info.is_open THEN {t \in all : t.file # f} ELSE {}

\* The world after the death of the process: its descriptors are closed, and
\* the next process has a session as init_vault makes it.
AfterCrash(w, f) ==
  [w EXCEPT !.file = f, !.info = InitInfo, !.locked = FALSE, !.mem = "noaccess"]

Elsewhere(w) ==
  [w EXCEPT !.file = NoFile, !.exists = FALSE, !.locked = FALSE,
            !.info = InitInfo, !.mem = "noaccess"]

\* The vaults that hold the master key of the open vault and not the key:
\* the vault itself once delete_key has taken the key out, and the empty
\* vault that create_from_header makes elsewhere from its header.
Receivers(w, pw, key) ==
  {delete_key(w, key).w, create_from_header(Elsewhere(w), pw, get_header(w)).w}

(***************************************************************************)
(* C25.  Encrypted export/import round trip.  In every reachable state,    *)
(* for a key whose entry get_encrypted_value returns: add_encrypted_value  *)
(* of the key, the entry, its length and its type, with a time, on a vault *)
(* that holds the same master key and not the key, returns VE_SUCCESS;     *)
(* open_key of the key with place_open_value then gives, on that vault,    *)
(* the value, the length and the type that the entry holds, and            *)
(* last_modified_time gives the time passed.                               *)
(* The program does not keep this when the receiving vault has had the key *)
(* before and its value is still in the box: open_key answers from the     *)
(* box.                                                                    *)
(***************************************************************************)
C25_ExportImportRoundTrip ==
  \A key \in Keys :
    LET g == get_encrypted_value(World, key)
        original == ReadFromFile(World, key)
    IN  (info.is_open /\ g.ret = VE_SUCCESS /\ original.ret = VE_SUCCESS) =>
          \A receiver \in Receivers(World, password, key) :
            LET a == add_encrypted_value(receiver, key, g.result, g.len, g.type,
                                         4000)
                r == ReadValue(a.w, key)
            IN  /\ a.ret = VE_SUCCESS
                /\ r.ret = VE_SUCCESS
                /\ r.result = original.result
                /\ r.len = original.len
                /\ r.type = original.type
                /\ r.m_time = 4000

\* The entry of key as a vault with another master key exports it: a vault
\* that create_vault makes elsewhere, after add_key of the key.
ForeignEntry(w, key) ==
  LET other == create_vault(Elsewhere(w), "hunter2").w
      held == add_key(other, 3, key, <<9>>, 3000, 1).w
  IN  get_encrypted_value(held, key).result

\* Entries whose hash is not the hash of their bytes under the master key of
\* the session: an entry with the hash under another key, the entry of
\* another vault, and an entry of this master key (made for the key, or
\* exported from the file) with one field altered.
ForgedEntries(w, key) ==
  LET master == w.info.decrypted_master
      Exported == {get_encrypted_value(w, k).result :
                     k \in {k \in Keys : get_encrypted_value(w, k).ret = VE_SUCCESS}}
  IN  {ServerEntry(key, master, TRUE), ForeignEntry(w, key)}
      \cup {AlterEntry(e, field) :
              e \in {ServerEntry(key, master, FALSE)} \cup Exported,
              field \in EntryFields}

(***************************************************************************)
(* C26.  add_encrypted_value rejects forged entries.  In every reachable   *)
(* state of an open vault, for a key that the index does not hold and an   *)
(* entry whose last 32 bytes are not the keyed hash of the bytes before    *)
(* them under the master key of the session (an entry with a byte altered, *)
(* an entry sealed under another master key): add_encrypted_value returns  *)
(* VE_FILE, and the file (its bytes, the location entries, their number),  *)
(* the index and the open value are the same as before the call.           *)
(***************************************************************************)
C26_ForgedRejected ==
  \A key \in Keys :
    (info.is_open /\ ~get_info(info.key_info, key)) =>
      \A value \in ForgedEntries(World, key) :
        LET a == add_encrypted_value(World, key, value, ChunkSize(value),
                                     value.type, 4000)
        IN  a.ret = VE_FILE /\ Untouched(a)

\* On a vault all of whose location entries are used, one of them by a
\* deleted key, add_encrypted_value of an entry for a key not held returns
\* VE_FILE when the hash is forged; the entry whose hash verifies is appended
\* after a compaction.
C26_Rejected ==
  LET master == info.decrypted_master
      Add(forged) ==
        add_encrypted_value(World, <<2>>, ServerEntry(<<2>>, master, forged),
                            ChunkSize(ServerEntry(<<2>>, master, forged)), 3, 4000)
  IN  /\ info.is_open
      /\ ~get_info(info.key_info, <<2>>)
      /\ Full(file)
      /\ \E i \in 1..file.loc_len : file.loc[i].state = STATE_DELETED
      /\ Add(TRUE).ret = VE_FILE
      /\ Add(FALSE).ret = VE_SUCCESS
      /\ Add(FALSE).w.file # file

\* pw opens the sealed master key of a header.
OpensHeader(header, pw) ==
  secretbox_opens(header.enc_master, header.master_nonce,
                  PW_HASH(pw, header.salt))

(***************************************************************************)
(* C27.  Header download round trip.  In every reachable state of an open  *)
(* vault with header H = get_header(): where no file is at the path,       *)
(* create_from_header with the password of the vault and H returns         *)
(* VE_SUCCESS and leaves an open vault with no key, INITIAL_SIZE location  *)
(* entries, all unused, a file hash that verifies, a header equal to H and *)
(* the master key of the source vault; with a password that does not open  *)
(* the sealed master key of H it returns VE_WRONGPASS, makes no file and   *)
(* leaves the session closed.                                              *)
(***************************************************************************)
C27_HeaderRoundTrip ==
  LET H == get_header(World)
      there == Elsewhere(World)
      c == create_from_header(there, password, H)
  IN  info.is_open =>
        /\ H.ret = VE_SUCCESS
        /\ c.ret = VE_SUCCESS
        /\ c.w.exists /\ c.w.locked /\ c.w.info.is_open
        /\ num_vault_keys(c.w) = 0
        /\ get_vault_keys(c.w).results = {}
        /\ c.w.file.loc_len = INITIAL_SIZE
        /\ \A i \in 1..INITIAL_SIZE : c.w.file.loc[i] = EmptyLoc
        /\ FileHashMatches(c.w.file, c.w.info.decrypted_master)
        /\ get_header(c.w) = H
        /\ c.w.info.decrypted_master = info.decrypted_master
        /\ open_vault(close_vault(c.w).w, password).ret = VE_SUCCESS
        /\ \A pw \in Passwords :
             ~OpensHeader(H, pw) =>
               LET x == create_from_header(there, pw, H)
               IN  /\ x.ret = VE_WRONGPASS
                   /\ ~x.w.exists
                   /\ x.w.file = NoFile
                   /\ ~x.w.info.is_open

\* The source vault holds a key and its password has been changed; the
\* header gives an empty vault with the new password and is refused with
\* the old one.
C27_Downloaded ==
  /\ info.is_open
  /\ last.op = "change_password"
  /\ last.ret = VE_SUCCESS
  /\ num_vault_keys(World) > 0
  /\ create_from_header(Elsewhere(World), password, get_header(World)).ret
       = VE_SUCCESS
  /\ \E pw \in Passwords :
       create_from_header(Elsewhere(World), pw, get_header(World)).ret
         = VE_WRONGPASS

\* Salts that the server keeps for the second hash of the password.
SecondSalts == {7, 8}

(***************************************************************************)
(* C28.  Server password consistency.  In every reachable state of an open *)
(* vault (after create_vault, open_vault, create_from_header,              *)
(* change_password or update_key_from_recovery) derived_key is the hash of *)
(* the current password with the salt of the header; the server password   *)
(* that create_password_for_server gives for a second salt, and the one    *)
(* that create_data_for_server gives with the second salt it draws, are    *)
(* those that make_password_for_server gives for the current password, the *)
(* salt of the header and that second salt.                                *)
(***************************************************************************)
C28_ServerPasswordConsistent ==
  info.is_open =>
    /\ info.derived_key = PW_HASH(password, file.salt)
    /\ \A S2 \in SecondSalts :
         LET c == create_password_for_server(World, S2)
         IN  /\ c.ret = VE_SUCCESS
             /\ c.server_pass
                  = make_password_for_server(password, file.salt, S2).server_pass
    /\ \A response1 \in Responses, response2 \in Responses :
         LET d == create_data_for_server(World, response1, response2)
         IN  /\ d.ret = VE_SUCCESS
             /\ d.first_pass_salt = file.salt
             /\ d.server_pass
                  = make_password_for_server(password, d.first_pass_salt,
                                             d.second_pass_salt).server_pass

\* The password of an open vault has been changed: the salt of the header is
\* a new one, and the server password is that of the new password.
C28_Changed ==
  /\ info.is_open
  /\ last.op = "change_password"
  /\ last.ret = VE_SUCCESS
  /\ password # last.pw
  /\ create_password_for_server(World, 7).server_pass
       = make_password_for_server(password, file.salt, 7).server_pass
  /\ create_password_for_server(World, 7).server_pass
       # make_password_for_server(last.pw, file.salt, 7).server_pass

(***************************************************************************)
(* The time of the last contact with the server.                           *)
(***************************************************************************)
\* Times that a caller passes to set_last_server_time.
Timestamps == {5000, 6000}

\* The calls that the time must outlast, applied to w with the password pw:
\* add_key, delete_key, update_key, a compaction, change_password, and
\* close_vault followed by open_vault.
AfterOtherCalls(w, pw) ==
  LET input == FreshInput(w.rnd)
      len == Len(input.value)
      cond == internal_condense_file(w.file, w.info.decrypted_master)
  IN  {add_key(w, input.type, key, input.value, input.m_time, len) : key \in Keys}
      \cup {delete_key(w, key) : key \in Keys}
      \cup {update_key(w, input.type, key, input.value, input.m_time, len) :
              key \in Keys}
      \cup {Ret([w EXCEPT !.file = cond.file, !.info.key_info = cond.key_info],
                VE_SUCCESS)}
      \cup {change_password(w, pw, new) : new \in Passwords}
      \cup {Reopen(w, pw)}

\* set_last_server_time(timestamp) has left of the state before it everything
\* but the 8 bytes of the time and the hash that ends the file.
OnlyTimeAndHash(s) ==
  /\ BeforeHash([s.w.file EXCEPT !.ser_time = file.ser_time]) = BeforeHash(file)
  /\ Len(s.w.file.data) = Len(file.data)
  /\ s.w.file.data[Len(file.data)].kind = "hash"
  /\ FileSize(s.w.file) = FileSize(file)
  /\ s.w.info = info
  /\ s.w.exists = exists
  /\ s.w.locked = locked

(***************************************************************************)
(* C29.  last_server_time.  A vault fresh from create_vault gives 0.  In   *)
(* every reachable state of an open vault, set_last_server_time(ts)        *)
(* returns VE_SUCCESS and changes only the 8 bytes of the time in the      *)
(* header and the hash that ends the file; get_last_server_time then gives *)
(* ts, gives ts2 after a second set_last_server_time(ts2), and still gives *)
(* ts after add_key, delete_key, update_key, a compaction, change_password *)
(* and close_vault followed by open_vault, when they succeed.  In every    *)
(* step of a run the time in the file changes only by a                    *)
(* set_last_server_time that returns VE_SUCCESS, and the file that a step  *)
(* makes holds the time 0.                                                 *)
(***************************************************************************)
C29_LastServerTime ==
  /\ [](/\ \A pw \in Passwords :
            LET c == create_vault(World, pw)
            IN  c.ret = VE_SUCCESS => get_last_server_time(c.w) = 0
        /\ info.is_open =>
             /\ get_last_server_time(World) = file.ser_time
             /\ \A ts \in Timestamps :
                  LET s == set_last_server_time(World, ts)
                  IN  /\ s.ret = VE_SUCCESS
                      /\ OnlyTimeAndHash(s)
                      /\ get_last_server_time(s.w) = ts
                      /\ \A ts2 \in Timestamps :
                           get_last_server_time(
                             set_last_server_time(s.w, ts2).w) = ts2
                      /\ \A r \in AfterOtherCalls(s.w, password) :
                           r.ret = VE_SUCCESS =>
                             get_last_server_time(r.w) = ts)
  /\ [][/\ (exists /\ exists' /\ file'.ser_time # file.ser_time) =>
             (last'.op = "set_last_server_time" /\ last'.ret = VE_SUCCESS)
        /\ (~exists /\ exists') => file'.ser_time = 0]_vars

\* set_last_server_time has succeeded on a vault that holds a key; a key has
\* then been added and the vault closed and opened again, and the time is
\* the one set.
C29_Kept ==
  /\ info.is_open
  /\ last.op = "open_vault"
  /\ last.ret = VE_SUCCESS
  /\ num_vault_keys(World) = 2
  /\ get_last_server_time(World) = 5000

(***************************************************************************)
(* The buffer of the caller.                                               *)
(***************************************************************************)
\* The offsets of result that place_open_value writes: the val_len bytes that
\* memcpy copies, and the zero byte that it stores at result[val_len].
place_open_value_offsets(w) ==
  LET val_len == w.info.current_box.val_len
  IN  IF ~w.info.is_open THEN {} ELSE (0..(val_len - 1)) \cup {val_len}

\* A value of len bytes.
ValueOfLength(len) == [i \in 1..len |-> 40 + i]

(***************************************************************************)
(* C30.  Caller-buffer bound.  In every reachable state, for every key and *)
(* every length from 0 to DATA_SIZE: when add_key of a value of that       *)
(* length and open_key of the key return VE_SUCCESS, place_open_value      *)
(* writes only offsets 0..DATA_SIZE - 1 of the buffer of the caller.       *)
(* The program does not keep this for a value of DATA_SIZE bytes: the zero *)
(* byte after the value goes to offset DATA_SIZE.                          *)
(***************************************************************************)
C30_CallerBufferBound ==
  \A key \in Keys, len \in 0..DATA_SIZE :
    LET a == add_key(World, 1, key, ValueOfLength(len), 1, len)
        o == open_key(a.w, key)
    IN  (a.ret = VE_SUCCESS /\ o.ret = VE_SUCCESS) =>
          /\ place_open_value(o.w).ret = VE_SUCCESS
          /\ place_open_value_offsets(o.w) \subseteq 0..(DATA_SIZE - 1)

(***************************************************************************)
(* Reads of the file by open_key.                                          *)
(***************************************************************************)
\* What open_key(key) reads of the file: nothing when it refuses the call or
\* finds the key in the box, else the location entry of the key and the
\* entry that it points to.
open_key_reads(w, key) ==
  LET c == internal_initial_checks(w)
      w1 == c.w
      box == w1.info.current_box
  IN  IF Len(key) > BOX_KEY_SIZE - 1 THEN {}
      ELSE IF c.ret # VE_SUCCESS THEN {}
      ELSE IF ~get_info(w1.info.key_info, key) THEN {}
      ELSE IF box.key # <<>> /\ key = box.key THEN {}
      ELSE {"loc", "entry"}

\* The key of no bytes, "" in C: add_key accepts it, and the box holds it as
\* it holds no key, with key[0] = 0.
EmptyKey == <<>>

(***************************************************************************)
(* C31.  Idempotent open.  In every reachable state, and in the state      *)
(* after add_key of any key that add_key accepts: when open_key(k) returns *)
(* VE_SUCCESS and open_key(k) right after it returns VE_SUCCESS, the       *)
(* second call reads neither the location entry nor the entry of k and     *)
(* leaves the box as the first call left it.                               *)
(* The program does not keep this for the key of no bytes: the box marks   *)
(* "no key" by key[0] = 0, so every open_key("") reads the file.           *)
(***************************************************************************)
C31_IdempotentOpen ==
  \A key \in Keys \cup {EmptyKey} :
    \A w \in {World, add_key(World, 1, key, <<7>>, 1, 1).w} :
      LET o1 == open_key(w, key)
          o2 == open_key(o1.w, key)
      IN  (o1.ret = VE_SUCCESS /\ o2.ret = VE_SUCCESS) =>
            /\ open_key_reads(o1.w, key) = {}
            /\ o2.w.info.current_box = o1.w.info.current_box
            /\ o2.w.file = o1.w.file

(***************************************************************************)
(* The states of a location entry.                                         *)
(***************************************************************************)
\* What a call op of key may have done to the location table of the file f,
\* leaving g.  With the table at its size, an entry keeps its four words
\* unless it goes from UNUSED to ACTIVE (the first UNUSED entry, by a call
\* that appends, its entry the last one before the hash that ends g) or from
\* ACTIVE to DELETED (the entry of the key, by delete_key or update_key).
\* A table of another size is one that a compaction has written: it has no
\* DELETED entry.
SlotStep(f, g, op, key) ==
  IF g.loc_len # f.loc_len
  THEN /\ g.loc_len = 2 * f.loc_len
       /\ Full(f) \/ op = "update_key"
       /\ \A i \in 1..g.loc_len : g.loc[i].state # STATE_DELETED
  ELSE \A i \in 1..f.loc_len :
         \/ g.loc[i] = f.loc[i]
         \/ /\ f.loc[i].state = STATE_UNUSED
            /\ g.loc[i].state = STATE_ACTIVE
            /\ op \in {"add_key", "update_key", "add_encrypted_value"}
            /\ i = FirstFreeLoc(f)
            /\ \A j \in 1..f.loc_len : f.loc[j].state = STATE_DELETED => j < i
            /\ g.loc[i].file_loc = ChunkStart(g, Len(g.data) - 1)
            /\ g.loc[i].file_loc >= FileSize(f) - HASH_SIZE
         \/ /\ f.loc[i].state = STATE_ACTIVE
            /\ g.loc[i] = [f.loc[i] EXCEPT !.state = STATE_DELETED]
            /\ op \in {"delete_key", "update_key"}
            /\ KeyAt(f, i) = key

(***************************************************************************)
(* C32.  Slot state machine.  On every step of a run, and for              *)
(* add_encrypted_value applied to every reachable state: a location entry  *)
(* changes only from UNUSED to ACTIVE, by an append that takes the first   *)
(* UNUSED entry and puts the entry at the end of the data, or from ACTIVE  *)
(* to DELETED, by delete_key or update_key of its key, or is dropped by a  *)
(* compaction; a DELETED entry keeps its state until a compaction, so a    *)
(* key that is added again takes an entry after the one it had.            *)
(***************************************************************************)
C32_SlotStateMachine ==
  /\ [][(exists /\ exists') => SlotStep(file, file', last'.op, last'.key)]_vars
  /\ [](info.is_open =>
          \A key \in Keys :
            LET value == ServerEntry(key, info.decrypted_master, FALSE)
                a == add_encrypted_value(World, key, value, ChunkSize(value),
                                         3, 4000)
            IN  a.ret = VE_SUCCESS =>
                  SlotStep(file, a.w.file, "add_encrypted_value", key))

\* A key has been deleted and added again with the table at its first size:
\* its old location entry is DELETED and a later one is ACTIVE with the key.
C32_AddedAgain ==
  /\ exists
  /\ file.loc_len = INITIAL_SIZE
  /\ \E i \in 1..file.loc_len, j \in 1..file.loc_len :
       /\ i < j
       /\ file.loc[i].state = STATE_DELETED
       /\ file.loc[j].state = STATE_ACTIVE
       /\ EntryAt(file, i) /\ EntryAt(file, j)
       /\ KeyAt(file, i) = KeyAt(file, j)
       /\ last.op = "add_key"

\* The UNUSED entries of the location table of f are its last ones.
UnusedAtTail(f) ==
  \A i \in 1..f.loc_len, j \in 1..f.loc_len :
    (i < j /\ f.loc[i].state = STATE_UNUSED) => f.loc[j].state = STATE_UNUSED

(***************************************************************************)
(* C33.  In every reachable state in which the file exists, and after      *)
(* add_encrypted_value and a compaction applied to it, the UNUSED entries  *)
(* of the location table are its last ones: no ACTIVE or DELETED entry     *)
(* follows an UNUSED one.                                                  *)
(***************************************************************************)
C33_UnusedSuffix ==
  /\ exists => UnusedAtTail(file)
  /\ info.is_open =>
       /\ UnusedAtTail(internal_condense_file(file, info.decrypted_master).file)
       /\ \A key \in Keys :
            LET value == ServerEntry(key, info.decrypted_master, FALSE)
            IN  UnusedAtTail(add_encrypted_value(World, key, value,
                               ChunkSize(value), 3, 4000).w.file)

\* The table is the doubled one that a compaction has left, with ACTIVE
\* entries before the UNUSED ones, and delete_key makes one of them DELETED.
C33_Mixed ==
  /\ info.is_open
  /\ file.loc_len = 2 * INITIAL_SIZE
  /\ \E i \in 1..file.loc_len : file.loc[i].state = STATE_ACTIVE
  /\ \E i \in 1..file.loc_len : file.loc[i].state = STATE_UNUSED
  /\ \E key \in Keys :
       LET d == delete_key(World, key)
       IN  /\ d.ret = VE_SUCCESS
           /\ \E i \in 1..file.loc_len : d.w.file.loc[i].state = STATE_DELETED
           /\ \E i \in 1..file.loc_len : d.w.file.loc[i].state = STATE_ACTIVE
           /\ UnusedAtTail(d.w.file)

(***************************************************************************)
(* C34.  Frame of delete_key.  In every reachable state of an open vault,  *)
(* when delete_key(k) returns VE_SUCCESS: the file differs from the one    *)
(* before only in the state word of the location entry of k (now 1), in    *)
(* the val_len + MAC_SIZE bytes of the sealed value of its entry (now      *)
(* zero) and in the hash that ends the file; the other words of the        *)
(* location entry, the time, type, key, nonce and hash of the entry, every *)
(* other location entry and entry, and all offsets are the same.           *)
(* The program does not keep this: it leaves the hash that ended the file  *)
(* where it was and writes the new one after it.                           *)
(***************************************************************************)
C34_DeleteFrame ==
  \A key \in Keys :
    LET d == delete_key(World, key)
        i == SlotOf(World, key)
        j == ChunkAt(file, file.loc[i].file_loc)
    IN  (info.is_open /\ d.ret = VE_SUCCESS /\ EntryAt(file, i)) =>
          /\ BeforeHash(d.w.file)
               = HashedBytes(BeforeHash([file EXCEPT
                                           !.loc[i].state = STATE_DELETED,
                                           !.data[j].e_val = ZeroBox]))
          /\ d.w.file.data[Len(d.w.file.data)].kind = "hash"
          /\ FileSize(d.w.file) = FileSize(file)

(***************************************************************************)
(* The result of a compaction.                                             *)
(***************************************************************************)
\* The ACTIVE location entries of f, by rising index.
ActiveInOrder(f) ==
  LET n == Cardinality(ActiveSlots(f))
  IN  CHOOSE s \in [1..n -> ActiveSlots(f)] :
        \A a \in 1..n, b \in 1..n : a < b => s[a] < s[b]

(***************************************************************************)
(* C35.  Packed result of compaction.  In every reachable state of an open *)
(* vault whose ACTIVE location entries point to entries: after             *)
(* internal_condense_file the table has twice the entries, none DELETED;   *)
(* its first entries are the ACTIVE ones of before, in their order, each   *)
(* with the offset of its entry; the others are UNUSED; and the data       *)
(* between the table and the hash that ends the file are the entries of    *)
(* the ACTIVE location entries, one after the other, and nothing else.     *)
(* The program does not keep this when the table starts with an ACTIVE     *)
(* entry: the loop passes over it and neither moves its entry nor sets its *)
(* offset.                                                                 *)
(***************************************************************************)
C35_PackedCompaction ==
  LET c == internal_condense_file(file, info.decrypted_master).file
      live == ActiveInOrder(file)
      n == Len(live)
  IN  (info.is_open /\ \A i \in ActiveSlots(file) : EntryAt(file, i)) =>
        /\ c.loc_len = 2 * file.loc_len
        /\ Len(c.loc) = c.loc_len
        /\ \A i \in 1..c.loc_len : c.loc[i].state # STATE_DELETED
        /\ \A i \in 1..c.loc_len :
             IF i <= n
             THEN /\ c.loc[i].state = STATE_ACTIVE
                  /\ c.loc[i].key_len = file.loc[live[i]].key_len
                  /\ c.loc[i].val_len = file.loc[live[i]].val_len
                  /\ c.loc[i].file_loc = ChunkStart(c, i)
             ELSE c.loc[i] = EmptyLoc
        /\ Len(c.data) = n + 1
        /\ c.data[n + 1].kind = "hash"
        /\ \A i \in 1..n :
             c.data[i] = file.data[ChunkAt(file, file.loc[live[i]].file_loc)]

(***************************************************************************)
(* The steps of an append.                                                 *)
(***************************************************************************)
\* The file and the index after each step of internal_append_key on the file
\* f with the index map: before the first write, after the write of the
\* entry, after the write of the location entry, after the write of the
\* hash, after add_entry.
AppendKeySteps(f, map, master, type, key, value, m_time, val_len, nonce) ==
  LET writes == AppendKeyWrites(f, master, type, key, value, m_time, val_len,
                                nonce)
      done == internal_append_key(f, map, master, type, key, value, m_time,
                                  val_len, nonce)
  IN  IF writes = <<>> THEN <<>>
      ELSE <<[file |-> f, key_info |-> map],
             [file |-> writes[1], key_info |-> map],
             [file |-> writes[2], key_info |-> map],
             [file |-> done.file, key_info |-> map],
             [file |-> done.file, key_info |-> done.key_info]>>

(***************************************************************************)
(* C36.  Write ordering of an append.  In every reachable state of an open *)
(* vault, for add_key of a key that the index does not hold (on the file   *)
(* as it is, or as the compaction of a full table leaves it):              *)
(* internal_append_key writes the entry, then the location entry, then the *)
(* hash of the file, and then puts the key into the index.  After each     *)
(* step, when the location entry is ACTIVE the entry of the key is in the  *)
(* file at its file_loc, and when the index holds the key the location     *)
(* entry is ACTIVE.                                                        *)
(***************************************************************************)
C36_AppendWriteOrder ==
  \A key \in Keys \ get_keys(info.key_info) :
    LET input == FreshInput(rnd)
        master == info.decrypted_master
        cond == internal_condense_file(file, master)
        from == IF Full(file) THEN cond ELSE [file |-> file, key_info |-> info.key_info]
        i == FirstFreeLoc(from.file)
        st == AppendKeySteps(from.file, from.key_info, master, input.type, key,
                             input.value, input.m_time, Len(input.value), rnd + 1)
    IN  info.is_open =>
          /\ Len(st) = 5
          /\ st[2].file.loc = st[1].file.loc
          /\ st[2].file.data # st[1].file.data
          /\ st[3].file.data = st[2].file.data
          /\ st[3].file.loc = [st[2].file.loc EXCEPT ![i] = st[3].file.loc[i]]
          /\ st[3].file.loc[i].state = STATE_ACTIVE
          /\ st[4].file.loc = st[3].file.loc
          /\ BeforeHash(st[4].file) = HashedBytes(st[3].file)
          /\ FileHashMatches(st[4].file, master)
          /\ \A k \in 1..5 :
               /\ st[k].file.loc[i].state = STATE_ACTIVE =>
                    /\ EntryAt(st[k].file, i)
                    /\ KeyAt(st[k].file, i) = key
               /\ get_info(st[k].key_info, key) =>
                    /\ st[k].file.loc[i].state = STATE_ACTIVE
                    /\ st[k].key_info[key].inode_loc = LocOffset(i)
                    /\ FileHashMatches(st[k].file, master)
          /\ get_info(st[5].key_info, key)

\* add_key of a key not held finds a free location entry in a table that
\* holds an ACTIVE and a DELETED entry, and its steps are the five.
C36_Appending ==
  /\ info.is_open
  /\ ~Full(file)
  /\ get_info(info.key_info, <<1>>)
  /\ ~get_info(info.key_info, <<2>>)
  /\ \E j \in 1..file.loc_len : file.loc[j].state = STATE_DELETED
  /\ Len(AppendKeySteps(file, info.key_info, info.decrypted_master, 1, <<2>>,
                        <<7>>, 1, 1, rnd + 1)) = 5
  /\ add_key(World, 1, <<2>>, <<7>>, 1, 1).ret = VE_SUCCESS

(***************************************************************************)
(* Failure of update_key.                                                  *)
(***************************************************************************)
\* The lengths that a caller of update_key passes as len: those that add_key
\* accepts and the first that it refuses.
UpdateLens == 0..(DATA_SIZE + 1)

\* The values that a caller of update_key passes: strings of at most
\* DATA_SIZE + 1 bytes.
UpdateValues == {<<>>, <<7>>, <<7, 8>>, <<7, 8, 9>>}

(***************************************************************************)
(* C37.  Failure atomicity of update_key.  In every reachable state of an  *)
(* open vault, for every key k of the index and every value and len, when  *)
(* update_key(k, value, len) returns a code other than VE_SUCCESS, the     *)
(* index still holds k, and open_key and last_modified_time give for k the *)
(* value, the type and the time of before the call.                        *)
(***************************************************************************)
C37_UpdateFailureAtomic ==
  \A key \in get_keys(info.key_info), value \in UpdateValues, len \in UpdateLens :
    LET u == update_key(World, 2, key, value, 3000, len)
    IN  (info.is_open /\ (len <= Len(value) \/ len > DATA_SIZE)
           /\ u.ret # VE_SUCCESS) =>
          /\ get_info(u.w.info.key_info, key)
          /\ Content(u.w, key) = Content(World, key)

(***************************************************************************)
(* C38.  No lock leak on a failed open.  In every reachable state with the *)
(* session closed and the file not locked, when create_vault,              *)
(* create_from_header, open_vault or update_key_from_recovery returns an   *)
(* error and leaves the session closed, the lock of the file is not held   *)
(* after the call, and an open_vault that follows does not return          *)
(* VE_SYSCALL.                                                             *)
(***************************************************************************)
C38_NoLockLeak ==
  \A o \in Openers :
    (~info.is_open /\ ~locked /\ o.ret # VE_SUCCESS /\ ~o.w.info.is_open) =>
      /\ ~o.w.locked
      /\ \A pw \in Passwords : open_vault(o.w, pw).ret # VE_SYSCALL

(***************************************************************************)
(* C39.  No key material while closed.  In every reachable state with the  *)
(* session open, or closed with derived_key and decrypted_master zero,     *)
(* when close_vault, create_vault, create_from_header, open_vault or       *)
(* update_key_from_recovery returns with is_open false, derived_key and    *)
(* decrypted_master of the session are all zero.                           *)
(***************************************************************************)
C39_NoKeysWhileClosed ==
  \A o \in Openers \cup {close_vault(World)} :
    (/\ \/ info.is_open
        \/ info.derived_key = ZeroKey /\ info.decrypted_master = ZeroKey
     /\ ~o.w.info.is_open) =>
      /\ o.w.info.derived_key = ZeroKey
      /\ o.w.info.decrypted_master = ZeroKey

(***************************************************************************)
(* The index against the file.                                             *)
(***************************************************************************)
\* The keys of the index of a session, each with the time and the type that
\* the index holds and the value that open_key reads in the file.
IndexView(w) ==
  [key \in get_keys(w.info.key_info) |->
     [m_time |-> w.info.key_info[key].m_time,
      type |-> w.info.key_info[key].type,
      content |-> Content(w, key)]]

\* close_vault, then open_vault with the current password, gives the index
\* of before.
ReopensEqual(w) ==
  LET r == Reopen(w, password)
  IN  /\ r.ret = VE_SUCCESS
      /\ IndexView(r.w) = IndexView(w)

\* The types that a caller passes to add_encrypted_value with an entry of
\* type 3.
EntryTypes == {3, 4}

(***************************************************************************)
(* C40.  Reopen equivalence.  In every reachable state of an open vault,   *)
(* and in the state after every add_encrypted_value there that returns     *)
(* VE_SUCCESS, for every key, entry and type passed: close_vault followed  *)
(* by open_vault with the current password returns VE_SUCCESS with an      *)
(* index of the same keys, each with the same time, type and value read.   *)
(***************************************************************************)
C40_ReopenEquivalence ==
  info.is_open =>
    /\ ReopensEqual(World)
    /\ \A key \in Keys, entry_key \in Keys, type \in EntryTypes :
         LET value == ServerEntry(entry_key, info.decrypted_master, FALSE)
             a == add_encrypted_value(World, key, value, ChunkSize(value), type,
                                      4000)
         IN  a.ret = VE_SUCCESS => ReopensEqual(a.w)

====
